---- MODULE Spec2Model ----
(***************************************************************************)
(* researchKit / ollama_agent: the tool-calling chat loop                  *)
(* (ConversationEngine.generate_response, execute_tool_calls), the tool    *)
(* invocation layer (OllamaClient.execute_tool_call), the approval loop    *)
(* (ConversationEngine.approval_loop), and the phases of the workflow      *)
(* (WorkflowOrchestrator, started by cli.main).                            *)
(*                                                                         *)
(* Spec is one conversation engine driven by any caller; WorkflowSpec is   *)
(* the full workflow started by cli.main, from its config management on;   *)
(* ExecuteSpec is the workflow from its call of run_execute_phase on, on   *)
(* any project directory; InterruptSpec is WorkflowSpec with Ctrl+C;       *)
(* ConfigSpec is the config file under save, load and delete, and          *)
(* ValidateSpec is OllamaConfig.validate on any config.                    *)
(*                                                                         *)
(* Texts are TLA+ strings.  A JSON value travels as its text together with *)
(* a tag naming its Python type after parsing ("map" for a dict, "list"    *)
(* for a list); a wire value that is still a string has tag "str".         *)
(***************************************************************************)
EXTENDS Integers, Sequences, FiniteSets, TLC

VARIABLES
    messages,    \* ConversationEngine.messages
    pc,          \* where control is: "idle", "generate_response",
                 \* "approval_loop", "returned", "crashed", "interrupted"
    iteration,   \* generate_response's local counter
    use_tools,   \* generate_response's parameter
    content,     \* approval_loop's local: the content under review
    approved,    \* second component of approval_loop's return value
    allow_edit,  \* approval_loop's parameter
    original,    \* history: the content approval_loop was called with
    first,       \* history: the approval loop has not looped back yet
    calls,       \* history: backend calls made by the current invocation
    gens,        \* history: invocations of generate_response in this phase
    last,        \* history: what the last operation did (see Did)
    wf_pc,       \* where cli.main / run_full_workflow is: "start", "main",
                 \* "exit", the phase it is about to run or is running,
                 \* "done", "aborted", "cancelled"
    topic,       \* cli.main's topic, stripped
    files,       \* the files of the project directory that exist
    written,     \* history: the artifacts this run has written
    sources,     \* the sources artifact sources.md (see File)
    started,     \* history: the phases this run has started, in order
    outcomes,    \* history: what the phases that returned have returned
    store,       \* the config file .researchkit/config/ollama.json
    cfg_op,      \* history: the last operation on the config (see CfgDid)
    temp_files   \* the temporary files of _edit_in_editor that exist

wf_vars == <<wf_pc, topic, files, written, sources, started, outcomes>>

cfg_vars == <<store, cfg_op>>

engine_vars == <<messages, pc, iteration, use_tools, content, approved, allow_edit,
                 original, first, calls, gens, last>>

vars == <<messages, pc, iteration, use_tools, content, approved, allow_edit,
          original, first, calls, gens, last, wf_pc, topic, files, written, sources,
          started, outcomes, store, cfg_op, temp_files>>

(***************************************************************************)
(* Program constant and the bounds of the model.                           *)
(***************************************************************************)
max_iterations == 10

\* regenerations (non-empty feedback) the user asks for in one approval loop
MaxFeedback == 1
\* the backend answers or fails within its first MaxAnswerTurn replies of an
\* invocation, or keeps asking for tools until the ceiling
MaxAnswerTurn == 2

(***************************************************************************)
(* Values.                                                                 *)
(***************************************************************************)
SystemPrompt == "system prompt"
UserPrompt == "user prompt"

QueryArgs == "{\"query\": \"q\"}"
UrlArgs == "{\"url\": \"https://a\"}"
UrlListArgs == "{\"url\": [\"https://a\"]}"
NullUrlArgs == "{\"url\": null}"
EmptyArgs == "{}"
ListArgs == "[1]"
BadArgs == "{bad"

\* tools/__init__.py
TOOL_REGISTRY == {"web_search", "fetch_url", "parse_pdf"}

Msg(role, text) == [role |-> role, content |-> text, tool_calls |-> <<>>]

\* A tool-call entry of a reply: a dict with a "function" dict, or anything else.
\* A missing name reads as "" and missing arguments as {} (lines 147-149).
Call(name, tag, text) ==
    [kind |-> "dict", name |-> name, arguments |-> [tag |-> tag, text |-> text]]
Junk == [kind |-> "junk", name |-> "", arguments |-> [tag |-> "map", text |-> EmptyArgs]]

PlainCall == Call("web_search", "map", QueryArgs)
PlainReply == <<PlainCall>>

\* The tool-call lists the modelled backend may send as the first reply of a phase.
RichReplies ==
    { PlainReply,
      <<Call("web_search", "str", BadArgs)>>,
      <<Call("web_search", "str", ListArgs)>>,
      <<Call("fetch_url", "str", UrlArgs)>>,
      <<Call("nope", "map", EmptyArgs)>>,
      <<Call("", "map", EmptyArgs)>>,
      <<Junk>>,
      <<PlainCall, Call("nope", "str", ListArgs)>>,
      <<Call("nope", "map", QueryArgs), Call("fetch_url", "map", UrlArgs)>>,
      <<Call("nope", "map", EmptyArgs), Call("web_search", "str", ListArgs)>>,
      <<Call("web_search", "map", EmptyArgs), PlainCall>>,
      <<Call("fetch_url", "map", QueryArgs), Call("web_search", "str", ListArgs)>>,
      <<PlainCall, Call("fetch_url", "str", BadArgs), Call("nope", "map", UrlArgs)>> }

\* The tool-call lists it may send as the first reply of the Execute phase.
ExecuteReplies ==
    { PlainReply,
      <<PlainCall, Call("fetch_url", "str", UrlArgs)>>,
      <<Call("fetch_url", "map", UrlListArgs)>>,
      <<Call("fetch_url", "map", UrlArgs), Call("fetch_url", "map", NullUrlArgs)>>,
      <<Call("nope", "map", EmptyArgs)>> }

\* <<use_tools, allow_edit>> of a phase's generate_response and approval_loop
PhaseParameters == {<<TRUE, TRUE>>, <<FALSE, TRUE>>, <<TRUE, FALSE>>}

\* The text of a final reply: the "content" key may be missing.
NoContent == [present |-> FALSE, text |-> "None"]
Content(t) == [present |-> TRUE, text |-> t]
FinalReplies == {NoContent, Content("answer")}

\* a file: whether it exists, and its text as the sequence of the pieces
\* written to it
NoFile == [exists |-> FALSE, text |-> <<>>]
File(t) == [exists |-> TRUE, text |-> t]

\* the text of a sources.md that exists when the Execute phase starts
SourcesTemplate == "# Sources"

\* What the user types at the approval prompt and at the feedback prompt.
RawInputs == {"y", " YES ", "e", "Edit", "f", "FEEDBACK ", "s", " Skip", "n", ""}
FeedbackLines == {"", "  ", " more detail "}
EditedTexts == {"edited"}

(***************************************************************************)
(* Pure functions of the source.                                           *)
(***************************************************************************)
\* input().strip().lower() on the lines of RawInputs
StripLower(raw) ==
    CASE raw = " YES " -> "yes"
      [] raw = "Edit" -> "edit"
      [] raw = "FEEDBACK " -> "feedback"
      [] raw = " Skip" -> "skip"
      [] OTHER -> raw

\* input().strip() on the lines of FeedbackLines
Strip(raw) ==
    CASE raw = "  " -> ""
      [] raw = " more detail " -> "more detail"
      [] OTHER -> raw

\* json.loads on the argument texts: the parsed value, or JSONDecodeError
json_loads(text) ==
    CASE text = BadArgs -> [ok |-> FALSE, tag |-> "none", text |-> text]
      [] text = ListArgs -> [ok |-> TRUE, tag |-> "list", text |-> text]
      [] OTHER -> [ok |-> TRUE, tag |-> "map", text |-> text]

\* execute_tool_calls: "Parse arguments if they're a string"
parse_arguments(arguments) ==
    IF arguments.tag = "str"
    THEN LET p == json_loads(arguments.text)
         IN  IF p.ok THEN [tag |-> p.tag, text |-> p.text]
             ELSE [tag |-> "map", text |-> EmptyArgs]
    ELSE arguments

\* _display_tool_execution raises (AttributeError) when it calls .get on
\* arguments that are no dict; the generic branch reads only the name.
display_raises(tool_name, arguments) ==
    tool_name \in {"web_search", "fetch_url", "parse_pdf"} /\ arguments.tag # "map"

\* tool_function(**arguments): the tools catch their own failures, so a call
\* raises exactly when the arguments do not fit the signature (TypeError).
ToolRaises(tool_name, arguments) ==
    \/ arguments.tag # "map"
    \/ tool_name = "web_search" /\ arguments.text # QueryArgs
    \/ tool_name \in {"fetch_url", "parse_pdf"}
           /\ arguments.text \notin {UrlArgs, UrlListArgs, NullUrlArgs}

\* a JSON string, parsed
JsonStr(t) == [tag |-> "str", text |-> t]

TypeErrorText(tool_name) == tool_name \o "() got unexpected arguments"

\* What a tool returns for arguments that fit its signature: text is
\* json.dumps of the dict; url is its top-level "url" as a sequence of at most
\* one JSON value (fetch_url and parse_pdf return the url they were given, of
\* whatever type, also when the download fails); results is the "url"s of the
\* entries of its "results" list.
ToolResult(tool_name, arguments) ==
    CASE tool_name = "web_search" ->
            [url |-> <<>>, results |-> <<JsonStr("https://a"), JsonStr("https://b")>>,
             text |-> "{\"results\": [{\"url\": \"https://a\"}, {\"url\": \"https://b\"}], "
                          \o "\"query\": \"q\", \"count\": 2}"]
      [] arguments.text = UrlListArgs ->
            [url |-> <<[tag |-> "list", text |-> "[\"https://a\"]"]>>, results |-> <<>>,
             text |-> IF tool_name = "fetch_url"
                      THEN "{\"url\": [\"https://a\"], \"status_code\": 0, \"error\": \"e\"}"
                      ELSE "{\"url\": [\"https://a\"], \"text\": \"\", \"error\": \"e\"}"]
      [] arguments.text = NullUrlArgs ->
            [url |-> <<[tag |-> "null", text |-> "None"]>>, results |-> <<>>,
             text |-> IF tool_name = "fetch_url"
                      THEN "{\"url\": null, \"status_code\": 0, \"error\": \"e\"}"
                      ELSE "{\"url\": null, \"text\": \"\", \"error\": \"e\"}"]
      [] OTHER ->
            [url |-> <<JsonStr("https://a")>>, results |-> <<>>,
             text |-> IF tool_name = "fetch_url"
                      THEN "{\"url\": \"https://a\", \"status_code\": 200}"
                      ELSE "{\"url\": \"https://a\", \"text\": \"pdf\"}"]

\* json.dumps(result) of a tool that returned
ToolOutput(tool_name, arguments) == ToolResult(tool_name, arguments).text

\* json.dumps({"error": str(e), "tool": tool_name, "arguments": arguments})
ErrorPayload(e, tool_name, arguments) ==
    "{\"error\": \"" \o e \o "\", \"tool\": \"" \o tool_name
        \o "\", \"arguments\": " \o arguments.text \o "}"

NotFoundText(tool_name) == "Tool '" \o tool_name \o "' not found in registry"

\* OllamaClient.execute_tool_call: the returned text, or the raised ValueError
execute_tool_call(tool_name, arguments, tool_registry) ==
    IF tool_name \notin tool_registry
    THEN [raised |-> TRUE, text |-> NotFoundText(tool_name)]
    ELSE IF ToolRaises(tool_name, arguments)
         THEN [raised |-> FALSE,
               text |-> ErrorPayload(TypeErrorText(tool_name), tool_name, arguments)]
         ELSE [raised |-> FALSE, text |-> ToolOutput(tool_name, arguments)]

\* mutant: the except branch appends no result message
on_tool_exception_dropped(results, e) == results

\* execute_tool_calls, lines 175-181: the except branch of one tool call
on_tool_exception(results, e) ==
    Append(results, Msg("tool", "{\"error\": \"" \o e \o "\"}"))

\* mutant: the result is placed in the message as str(result), the repr of the
\* Python value, which is no JSON text
on_tool_result_repr(results, text) == Append(results, Msg("tool", "'" \o text \o "'"))

\* execute_tool_calls, lines 169-173: the result message of one tool call
on_tool_result(results, text) == Append(results, Msg("tool", text))

\* execute_tool_calls from request i on.  done: the result messages so far;
\* invoked: the (name, arguments) the invocation layer was called with so far.
\* raised: an exception left execute_tool_calls (nothing is returned then).
RECURSIVE tool_calls_from(_, _, _, _)
tool_calls_from(tool_calls, i, done, invoked) ==
    IF i > Len(tool_calls)
    THEN [raised |-> FALSE, results |-> done, invoked |-> invoked]
    ELSE LET tool_call == tool_calls[i]
             arguments == parse_arguments(tool_call.arguments)
         IN  IF tool_call.kind # "dict" \/ display_raises(tool_call.name, arguments)
             THEN [raised |-> TRUE, results |-> done, invoked |-> invoked]
             ELSE LET r == execute_tool_call(tool_call.name, arguments, TOOL_REGISTRY)
                      inv == Append(invoked, [name |-> tool_call.name,
                                              arguments |-> arguments,
                                              raised |-> r.raised])
                  IN  IF r.raised
                      THEN tool_calls_from(tool_calls, i + 1,
                                           on_tool_exception(done, r.text), inv)
                      ELSE tool_calls_from(tool_calls, i + 1,
                                           on_tool_result(done, r.text), inv)

execute_tool_calls(tool_calls) == tool_calls_from(tool_calls, 1, <<>>, <<>>)

add_system_message(msgs, text) == Append(msgs, Msg("system", text))

\* mutant: the new user message replaces the history
add_user_message_replacing(msgs, text) == <<Msg("user", text)>>

add_user_message(msgs, text) == Append(msgs, Msg("user", text))

\* mutant: clear_history leaves the messages in place
clear_history_kept(msgs) == msgs

clear_history(msgs) == <<>>

\* the message of a backend reply that asks for tools, as it is appended
ToolCallMessage(tool_calls) ==
    [role |-> "assistant", content |-> "", tool_calls |-> tool_calls]

\* mutant: message['content'] read without the default
get_content_unchecked(reply) == reply.text

\* message.get('content', '')
get_content(reply) == IF reply.present THEN reply.text ELSE ""

\* mutant: the except branch lets the loop go on (a retry)
chat_exception_retry == [returns |-> FALSE, value |-> ""]

\* generate_response, lines 127-129: what the except branch does
chat_exception_handler == [returns |-> TRUE, value |-> ""]

\* mutant: the loop condition admits one more iteration
loop_continues_off_by_one(i) == i <= max_iterations

\* generate_response's loop condition
loop_continues(i) == i < max_iterations

\* _edit_in_editor, lines 267-269: the file NamedTemporaryFile(delete=False)
\* creates
temp_path == "/tmp/tmp0.md"

\* mutant: the file is removed after the try statement, not in its finally
unlink_after_try(temps, outcome) ==
    IF outcome = "launch_failure" THEN temps ELSE temps \ {temp_path}

\* _edit_in_editor, lines 283-284: "finally: os.unlink(temp_path)"
finally_unlink(temps, outcome) == temps \ {temp_path}

\* mutant: the text the editor saved is not read back
edit_in_editor_unread(c, outcome, edited) ==
    [raised |-> outcome = "launch_failure", text |-> c,
     temps |-> finally_unlink(temp_files \cup {temp_path}, outcome)]

\* _edit_in_editor: the editor saves the text, exits with an error
\* (CalledProcessError: the old content is returned), or cannot be started
\* (subprocess.run raises an OSError, which nothing in the loop catches).
\* temps is the temporary files that exist when it returns or raises.
edit_in_editor(c, outcome, edited) ==
    LET temps == finally_unlink(temp_files \cup {temp_path}, outcome)
    IN  CASE outcome = "saved" -> [raised |-> FALSE, text |-> edited, temps |-> temps]
          [] outcome = "editor_error" -> [raised |-> FALSE, text |-> c, temps |-> temps]
          [] OTHER -> [raised |-> TRUE, text |-> c, temps |-> temps]

EditOutcomes == {"saved", "editor_error", "launch_failure"}

\* mutant: an empty feedback line is taken as feedback
feedback_given_always(feedback) == TRUE

\* approval_loop, line 241: "if feedback:"
feedback_given(feedback) == feedback # ""

\* mutant: the edit branch does not look at allow_edit
edit_enabled_unguarded(response, allowed) == response \in {"e", "edit"}

\* approval_loop, line 231
edit_enabled(response, allowed) == response \in {"e", "edit"} /\ allowed

\* mutant: accept reports the content as not approved
accept_result_rejected(c) == <<c, FALSE>>

\* approval_loop, line 229
accept_result(c) == <<c, TRUE>>

\* mutant: skip reports the content as approved
skip_result_approved(c) == <<c, TRUE>>

\* approval_loop, line 250
skip_result(c) == <<c, FALSE>>

(***************************************************************************)
(* History of the last operation.                                          *)
(***************************************************************************)
Did(op) ==
    [op |-> op,                 \* the operation
     n |-> Len(messages),       \* length of the history before it
     tool_calls |-> <<>>,       \* the tool calls of the reply it received
     reply |-> NoContent,       \* the text of the final reply it received
     raised |-> FALSE,          \* execute_tool_calls raised
     invoked |-> <<>>,          \* the tool invocations it made
     console |-> "",            \* what it reported: "", "error", "warning"
     input |-> "",              \* the input it read, when it tells the case
     urls |-> {},               \* the URLs _update_sources collected
     models |-> <<>>,           \* what list_models returned
     response |-> [ok |-> TRUE, names |-> <<>>],  \* what GET /api/tags answered
     tool_compatible_only |-> TRUE,               \* list_models' parameter
     sources |-> sources,       \* the sources artifact before it
     text |-> "",               \* the text a phase wrote to its artifact
     git |-> ""]                \* how the phase's git add and commit ended

\* mutant: a generation that returns "" leaves the content under review
Return_retaining(ret) ==
    /\ pc' = "approval_loop"
    /\ content' = IF ret = "" THEN content ELSE ret
    /\ original' = IF gens = 1 THEN ret ELSE original
    /\ first' = (gens = 1)
    /\ approved' = approved

\* generate_response returns ret to its caller, which passes or assigns it to
\* approval_loop's content (workflow.py 63-66, conversation.py 243).
Return(ret) ==
    /\ pc' = "approval_loop"
    /\ content' = ret
    /\ original' = IF gens = 1 THEN ret ELSE original
    /\ first' = (gens = 1)
    /\ approved' = approved

MayAnswer == iteration < MaxAnswerTurn

\* the phase that is running ("none": no phase of a workflow)
phase == IF Len(started) > Len(outcomes) THEN started[Len(started)] ELSE "none"

\* The tool-call lists the modelled backend may send now: none when it was
\* offered no tools; a rich choice only as the first reply of a phase.
Replies ==
    IF ~use_tools THEN {}
    ELSE IF gens = 1 /\ iteration = 0
         THEN CASE phase = "none" -> RichReplies
                [] phase = "execute" -> ExecuteReplies
                [] OTHER -> {PlainReply}
         ELSE {PlainReply}

(***************************************************************************)
(* The configuration: OllamaConfig and ConfigManager (config.py).          *)
(*                                                                         *)
(* A Python float is a number of tenths, or NaN.  The config file is the   *)
(* sequence of the members of its JSON object, each a key and the JSON     *)
(* text of its value, and is complete when the closing brace was written. *)
(* The strings of the model need no JSON escape.                           *)
(***************************************************************************)
Float(v) == [nan |-> FALSE, tenths |-> v]
NaN == [nan |-> TRUE, tenths |-> 0]

\* Python's a < b on floats: False when an operand is NaN
float_lt(a, b) == ~a.nan /\ ~b.nan /\ a.tenths < b.tenths

\* a str that holds a lone surrogate: no UTF-8 file can hold it
LoneSurrogate == "\\udc80"

\* datetime.now().isoformat()
now == "2026-11-05T04:35:09"

Models == {"", "llama3.2", LoneSurrogate}
Hosts == {"h", "localhost:11434"}
Urls == {"", "ftp://h", "http://localhost:11434", "https://h"}
Temperatures == {Float(0 - 1), Float(0), Float(5), Float(20), Float(30), NaN}
TopPs == {Float(0 - 1), Float(9), Float(10), Float(11)}
NumCtxs == {511, 512, 8192}

\* the dataclass OllamaConfig with its defaults for the fields not given
OllamaConfig(model, ollama_url, temperature, top_p, num_ctx) ==
    [version |-> "1.0", ollama_url |-> ollama_url, model |-> model,
     temperature |-> temperature, top_p |-> top_p, num_ctx |-> num_ctx,
     created_at |-> "", updated_at |-> ""]

Defaults == OllamaConfig("", "http://localhost:11434", Float(7), Float(9), 4096)

\* the configs validate is applied to
Configs ==
    {OllamaConfig(m, u, t, p, n) :
        m \in Models, u \in Urls, t \in Temperatures, p \in TopPs, n \in NumCtxs}

\* the configs save is called with
SavedConfigs ==
    {OllamaConfig(m, u, t, p, n) :
        m \in Models, u \in {"http://localhost:11434", "https://h"},
        t \in {Float(5), Float(30), NaN},
        p \in {Float(9), Float(10)}, n \in {512, 8192}}

\* the fields of the dataclass, in its order
Fields == <<"version", "ollama_url", "model", "temperature", "top_p", "num_ctx",
            "created_at", "updated_at">>
StrFields == {"version", "ollama_url", "model", "created_at", "updated_at"}
FloatFields == {"temperature", "top_p"}

\* str.startswith with a tuple of prefixes
startswith(s, prefixes) == \E p \in prefixes, rest \in Hosts \cup {""} : s = p \o rest

\* OllamaConfig.validate
validate(config) ==
    IF config.model = ""
    THEN [is_valid |-> FALSE, error |-> "Model name is required"]
    ELSE IF config.ollama_url = ""
    THEN [is_valid |-> FALSE, error |-> "Ollama URL is required"]
    ELSE IF ~startswith(config.ollama_url, {"http://", "https://"})
    THEN [is_valid |-> FALSE, error |-> "Ollama URL must start with http:// or https://"]
    ELSE IF float_lt(config.temperature, Float(0)) \/ float_lt(Float(20), config.temperature)
    THEN [is_valid |-> FALSE, error |-> "Temperature must be between 0.0 and 2.0"]
    ELSE IF float_lt(config.top_p, Float(0)) \/ float_lt(Float(10), config.top_p)
    THEN [is_valid |-> FALSE, error |-> "top_p must be between 0.0 and 1.0"]
    ELSE IF config.num_ctx < 512
    THEN [is_valid |-> FALSE, error |-> "num_ctx must be at least 512"]
    ELSE [is_valid |-> TRUE, error |-> "None"]

\* json.dump of a float: float.__repr__, and NaN for a NaN
float_repr(f) ==
    IF f.nan THEN "NaN"
    ELSE IF f.tenths < 0
         THEN "-" \o ToString((0 - f.tenths) \div 10) \o "." \o ToString((0 - f.tenths) % 10)
         ELSE ToString(f.tenths \div 10) \o "." \o ToString(f.tenths % 10)

\* json.dump of a str (ensure_ascii=False)
json_str(s) == "\"" \o s \o "\""

\* json.dump of the value of field k of the dict d
json_dump(d, k) ==
    IF k \in StrFields THEN json_str(d[k])
    ELSE IF k \in FloatFields THEN float_repr(d[k])
    ELSE ToString(d[k])

\* the file's encoder (encoding='utf-8') raises UnicodeEncodeError on text
encodable(text) == text # json_str(LoneSurrogate)

\* OllamaConfig.to_dict: asdict
to_dict(config) == config

\* the config file
Absent == [exists |-> FALSE, members |-> <<>>, complete |-> FALSE]
Document(members, complete) ==
    [exists |-> TRUE, members |-> members, complete |-> complete]

\* save, lines 145-147: what open(..., 'w') and json.dump leave in the file.
\* The members are written in order; the write raises at the first text the
\* encoder refuses, and the file keeps what was written before it.
RECURSIVE written_members(_, _)
written_members(d, i) ==
    IF i > Len(Fields) \/ ~encodable(json_dump(d, Fields[i]))
    THEN <<>>
    ELSE <<<<Fields[i], json_dump(d, Fields[i])>>>> \o written_members(d, i + 1)

json_dump_file(d) ==
    LET members == written_members(d, 1)
    IN  Document(members, Len(members) = Len(Fields))

\* ConfigManager.save: what it returns, the file afterwards, and the caller's
\* config object (save sets its updated_at)
save(doc, config) ==
    IF ~validate(config).is_valid
    THEN [ret |-> FALSE, store |-> doc, config |-> config]
    ELSE LET stamped == [config EXCEPT !.updated_at = now]
             file == json_dump_file(to_dict(stamped))
         IN  [ret |-> file.complete, store |-> file, config |-> stamped]

\* config_path.unlink() removes the file, or raises (e.g. PermissionError)
UnlinkOutcomes == {"removed", "failed"}

\* mutant: delete without its exists() check; unlink raises FileNotFoundError
\* on a missing file
delete_unchecked(doc, outcome) ==
    IF ~doc.exists \/ outcome = "failed"
    THEN [ret |-> FALSE, store |-> doc]
    ELSE [ret |-> TRUE, store |-> Absent]

\* ConfigManager.delete
delete(doc, outcome) ==
    IF ~doc.exists
    THEN [ret |-> TRUE, store |-> doc]
    ELSE IF outcome = "failed"
         THEN [ret |-> FALSE, store |-> doc]
         ELSE [ret |-> TRUE, store |-> Absent]

\* json.load of the text of one member: the value, among those of the model
\* that json.dump writes as this text
json_load_value(k, text) ==
    IF k \in StrFields
    THEN CHOOSE s \in Models \cup Urls \cup {"1.0", "", now} : json_str(s) = text
    ELSE IF k \in FloatFields
    THEN CHOOSE f \in Temperatures \cup TopPs \cup {Float(7)} : float_repr(f) = text
    ELSE CHOOSE n \in NumCtxs \cup {4096} : ToString(n) = text

\* mutant: from_dict ignores the data
from_dict_defaults(members) == Defaults

\* OllamaConfig.from_dict: cls(**data) on the members of a complete file;
\* a field without a member keeps its default
from_dict(members) ==
    [k \in DOMAIN Defaults |->
        IF \E i \in 1..Len(members) : members[i][1] = k
        THEN LET i == CHOOSE i \in 1..Len(members) : members[i][1] = k
             IN  json_load_value(k, members[i][2])
        ELSE Defaults[k]]

\* what load returns for no config
None == [is_none |-> TRUE, config |-> Defaults]
Some(config) == [is_none |-> FALSE, config |-> config]

\* mutant: load returns what it parsed without validating it
load_unvalidated(doc) ==
    IF ~doc.exists THEN None
    ELSE IF ~doc.complete THEN None
    ELSE IF \E i \in 1..Len(doc.members) : doc.members[i][1] \notin DOMAIN Defaults
    THEN None
    ELSE Some(from_dict(doc.members))

\* ConfigManager.load: None when there is no file, when json.load raises
\* JSONDecodeError, when cls(**data) raises TypeError on a key that is no
\* field, and when validate rejects the config
load(doc) ==
    IF ~doc.exists THEN None
    ELSE IF ~doc.complete THEN None
    ELSE IF \E i \in 1..Len(doc.members) : doc.members[i][1] \notin DOMAIN Defaults
    THEN None
    ELSE LET config == from_dict(doc.members)
         IN  IF validate(config).is_valid THEN Some(config) ELSE None

\* files that were not written by save: "{ invalid json }", the invalid_data
\* of test_load_invalid_config_data, and an object with a key that is no field
Garbage == Document(<<>>, FALSE)
InvalidData ==
    json_dump_file(OllamaConfig("", "http://localhost:11434", Float(7), Float(9), 4096))
ExtraKey == Document(<<<<"model", json_str("llama3.2")>>, <<"seed", "1">>>>, TRUE)

\* the last operation on the config: its argument, what it returned (ret,
\* and error or loaded), the file before it, and whether it directly follows
\* a save that returned True, or a delete that returned True
CfgDid(op, config, ret, before) ==
    [op |-> op, config |-> config, ret |-> ret, error |-> "None", loaded |-> None,
     before |-> before, saved |-> cfg_op.op = "save" /\ cfg_op.ret,
     deleted |-> cfg_op.op = "delete" /\ cfg_op.ret]

NoConfigOp ==
    [op |-> "init", config |-> Defaults, ret |-> FALSE, error |-> "None",
     loaded |-> None, before |-> Absent, saved |-> FALSE, deleted |-> FALSE]

(***************************************************************************)
(* Actions.                                                                *)
(***************************************************************************)
\* no operation has run yet
NoOperation ==
    [op |-> "init", n |-> 0, tool_calls |-> <<>>, reply |-> NoContent,
     raised |-> FALSE, invoked |-> <<>>, console |-> "", input |-> "",
     urls |-> {}, models |-> <<>>, response |-> [ok |-> TRUE, names |-> <<>>],
     tool_compatible_only |-> TRUE, sources |-> NoFile, text |-> "", git |-> ""]

\* the engine after construction (conversation.py 35-40)
EngineConstructed ==
    /\ messages = <<>>
    /\ pc = "idle"
    /\ iteration = 0
    /\ use_tools = TRUE
    /\ allow_edit = TRUE
    /\ content = ""
    /\ approved = FALSE
    /\ original = ""
    /\ first = TRUE
    /\ calls = 0
    /\ gens = 0
    /\ temp_files = {}

\* the program after construction, before its first operation
Constructed ==
    /\ EngineConstructed
    /\ last = NoOperation

\* no workflow is running
NoWorkflow ==
    /\ wf_pc = "main"
    /\ topic = ""
    /\ written = {}
    /\ sources = NoFile
    /\ started = <<>>
    /\ outcomes = <<>>

Init ==
    /\ Constructed
    /\ NoWorkflow
    /\ files = {}
    /\ store = Absent
    /\ cfg_op = NoConfigOp

\* A phase sets up its conversation and calls generate_response
\* (workflow.py, e.g. 232-242).
StartPhase ==
    /\ pc \in {"idle", "returned"}
    /\ \E p \in PhaseParameters :
          /\ use_tools' = p[1]
          /\ allow_edit' = p[2]
    /\ messages' = add_user_message(
                       add_system_message(clear_history(messages), SystemPrompt), UserPrompt)
    /\ pc' = "generate_response"
    /\ iteration' = 0
    /\ calls' = 0
    /\ gens' = 1
    /\ content' = ""
    /\ approved' = FALSE
    /\ original' = ""
    /\ first' = TRUE
    /\ last' = [Did("start") EXCEPT !.n = 0]
    /\ UNCHANGED <<wf_vars, cfg_vars, temp_files>>

\* mutant: the results are put before the assistant message that asked for them
tool_turn_results_first(msgs, tool_calls, results) ==
    Append(msgs \o results, ToolCallMessage(tool_calls))

\* lines 101-110 of an iteration that completes: the assistant message with
\* its tool calls, then the results
tool_turn(msgs, tool_calls, results) ==
    Append(msgs, ToolCallMessage(tool_calls)) \o results

\* One iteration whose reply carries tool calls (lines 86-114, and 127-129
\* when execute_tool_calls raises).
ChatToolCalls ==
    /\ pc = "generate_response"
    /\ loop_continues(iteration)
    /\ \E tool_calls \in Replies :
          LET r == execute_tool_calls(tool_calls)
              appended == Append(messages, ToolCallMessage(tool_calls))
          IN  /\ iteration' = iteration + 1
              /\ calls' = calls + 1
              /\ last' = [Did("tool_calls") EXCEPT !.tool_calls = tool_calls,
                              !.raised = r.raised, !.invoked = r.invoked,
                              !.console = IF r.raised THEN "error" ELSE ""]
              /\ IF r.raised
                 THEN /\ messages' = appended
                      /\ Return("")
                 ELSE /\ messages' = tool_turn(messages, tool_calls, r.results)
                      /\ pc' = "generate_response"
                      /\ UNCHANGED <<content, approved, original, first>>
    /\ UNCHANGED <<use_tools, allow_edit, gens>>
    /\ UNCHANGED <<wf_vars, cfg_vars, temp_files>>

\* One iteration whose reply carries no tool calls (lines 86-100, 115-125).
ChatFinal ==
    /\ pc = "generate_response"
    /\ loop_continues(iteration)
    /\ MayAnswer
    /\ \E reply \in FinalReplies :
          /\ messages' = Append(messages, Msg("assistant", get_content(reply)))
          /\ last' = [Did("final") EXCEPT !.reply = reply]
          /\ Return(get_content(reply))
    /\ iteration' = iteration + 1
    /\ calls' = calls + 1
    /\ UNCHANGED <<use_tools, allow_edit, gens>>
    /\ UNCHANGED <<wf_vars, cfg_vars, temp_files>>

\* One iteration whose backend call fails (lines 86-95, 127-129).
ChatError ==
    /\ pc = "generate_response"
    /\ loop_continues(iteration)
    /\ MayAnswer
    /\ iteration' = iteration + 1
    /\ calls' = calls + 1
    /\ last' = [Did("chat_error") EXCEPT !.console = "error"]
    /\ IF chat_exception_handler.returns
       THEN Return(chat_exception_handler.value)
       ELSE /\ pc' = "generate_response"
            /\ UNCHANGED <<content, approved, original, first>>
    /\ UNCHANGED <<messages, use_tools, allow_edit, gens>>
    /\ UNCHANGED <<wf_vars, cfg_vars, temp_files>>

\* The loop condition fails (lines 85, 131-133).
MaxIterations ==
    /\ pc = "generate_response"
    /\ ~loop_continues(iteration)
    /\ last' = [Did("max_iterations") EXCEPT !.console = "warning"]
    /\ Return("")
    /\ UNCHANGED <<messages, iteration, use_tools, allow_edit, calls, gens>>
    /\ UNCHANGED <<wf_vars, cfg_vars, temp_files>>

\* approval_loop, lines 228-229
Accept ==
    /\ pc = "approval_loop"
    /\ \E raw \in RawInputs : StripLower(raw) \in {"y", "yes"}
    /\ pc' = "returned"
    /\ content' = accept_result(content)[1]
    /\ approved' = accept_result(content)[2]
    /\ last' = Did("accept")
    /\ UNCHANGED <<messages, iteration, use_tools, allow_edit, original, first,
                   calls, gens>>
    /\ UNCHANGED <<wf_vars, cfg_vars, temp_files>>

\* approval_loop, lines 249-250
Skip ==
    /\ pc = "approval_loop"
    /\ \E raw \in RawInputs : StripLower(raw) \in {"s", "skip"}
    /\ pc' = "returned"
    /\ content' = skip_result(content)[1]
    /\ approved' = skip_result(content)[2]
    /\ last' = Did("skip")
    /\ UNCHANGED <<messages, iteration, use_tools, allow_edit, original, first,
                   calls, gens>>
    /\ UNCHANGED <<wf_vars, cfg_vars, temp_files>>

\* approval_loop, lines 231-234
Edit ==
    /\ pc = "approval_loop"
    /\ \E raw \in RawInputs : edit_enabled(StripLower(raw), allow_edit)
    /\ \E outcome \in EditOutcomes, edited \in EditedTexts :
          LET r == edit_in_editor(content, outcome, edited)
          IN  /\ pc' = IF r.raised THEN "crashed" ELSE "approval_loop"
              /\ content' = r.text
              /\ temp_files' = r.temps
              /\ last' = [Did("edit") EXCEPT !.raised = r.raised, !.input = outcome]
    /\ first' = FALSE
    /\ UNCHANGED <<messages, iteration, use_tools, approved, allow_edit, original,
                   calls, gens>>
    /\ UNCHANGED <<wf_vars, cfg_vars>>

\* approval_loop, lines 236-247
Feedback ==
    /\ pc = "approval_loop"
    /\ \E raw \in RawInputs : StripLower(raw) \in {"f", "feedback"}
    /\ \E line \in FeedbackLines :
          LET feedback == Strip(line)
          IN  IF feedback_given(feedback)
              THEN /\ gens <= MaxFeedback
                   /\ messages' = add_user_message(messages, feedback)
                   /\ pc' = "generate_response"
                   /\ use_tools' = TRUE    \* generate_response(): the default
                   /\ iteration' = 0
                   /\ calls' = 0
                   /\ gens' = gens + 1
                   /\ last' = Did("feedback")
              ELSE /\ last' = [Did("no_feedback") EXCEPT !.console = "warning"]
                   /\ UNCHANGED <<messages, pc, use_tools, iteration, calls, gens>>
    /\ first' = FALSE
    /\ UNCHANGED <<content, approved, allow_edit, original>>
    /\ UNCHANGED <<wf_vars, cfg_vars, temp_files>>

\* approval_loop, lines 252-254: also "e" when editing is not allowed
Invalid ==
    /\ pc = "approval_loop"
    /\ \E raw \in RawInputs :
          LET response == StripLower(raw)
          IN  /\ response \notin {"y", "yes", "f", "feedback", "s", "skip"}
              /\ ~edit_enabled(response, allow_edit)
              /\ last' = [Did("invalid") EXCEPT !.console = "warning",
                                                !.input = response]
    /\ first' = FALSE
    /\ UNCHANGED <<messages, pc, iteration, use_tools, content, approved, allow_edit,
                   original, calls, gens>>
    /\ UNCHANGED <<wf_vars, cfg_vars, temp_files>>

Next ==
    \/ StartPhase
    \/ ChatToolCalls
    \/ ChatFinal
    \/ ChatError
    \/ MaxIterations
    \/ Accept
    \/ Edit
    \/ Feedback
    \/ Skip
    \/ Invalid

Spec == Init /\ [][Next]_vars

\* The backend call and the tools return or fail within their timeouts, so an
\* invocation of generate_response that can take a step takes one.
ChatStep == ChatToolCalls \/ ChatFinal \/ ChatError \/ MaxIterations
FairSpec == Spec /\ WF_vars(ChatStep)

(***************************************************************************)
(* The workflow: cli.main and WorkflowOrchestrator.                        *)
(*                                                                         *)
(* The project directory is the set of its files that exist: "plan.sh"     *)
(* (the planning script), "research_dir" (the most recent research         *)
(* directory) and the artifacts "constitution", "plan", "findings",        *)
(* "sources", "synthesis", "synthesis_copy".  The text of a file is not    *)
(* kept, and a phase's prompts are named by the phase.  The scripts        *)
(* execute.sh and synthesize.sh only ever cause a warning.                 *)
(***************************************************************************)
Topics == {"", "  ", " quantum "}

\* input().strip() on the lines of Topics
StripTopic(raw) ==
    CASE raw = "  " -> ""
      [] raw = " quantum " -> "quantum"
      [] OTHER -> raw

\* mutant: an empty topic is let through
topic_given_always(t) == TRUE

\* cli.main, line 215: "if not topic"
topic_given(t) == t # ""

system_prompt(ph) == ph \o " system prompt"
user_prompt(ph) == ph \o " user prompt"

\* plan.sh creates the container of the plan (the research directory)
plan_sh(fs) == fs \cup {"research_dir"}

\* _get_current_research_dir: is there a research directory
get_current_research_dir(fs) == "research_dir" \in fs

\* mutant: the artifacts are written whatever the approval loop returned
persist_unapproved(fs, artifacts, ok) == fs \cup artifacts

\* "if approved:" followed by the writes of the artifacts
persist(fs, artifacts, ok) == IF ok THEN fs \cup artifacts ELSE fs

\* mutant: run_full_workflow ignores what the phases return
run_full_workflow_unchecked(ph, ok) ==
    CASE ph = "constitution" -> "plan"
      [] ph = "plan" -> "execute"
      [] ph = "execute" -> "synthesize"
      [] OTHER -> "done"

\* run_full_workflow: where it goes after phase ph returned ok
run_full_workflow(ph, ok) ==
    CASE ph = "constitution" -> "plan"
      [] ph = "plan" -> IF ok THEN "execute" ELSE "aborted"
      [] ph = "execute" -> IF ok THEN "synthesize" ELSE "aborted"
      [] OTHER -> "done"

\* the values of a sequence
Range(seq) == {seq[i] : i \in 1..Len(seq)}

\* the dicts the tools return
ToolResults ==
    {ToolResult(t, [tag |-> "map", text |-> a]) :
        t \in TOOL_REGISTRY, a \in {QueryArgs, UrlArgs, UrlListArgs, NullUrlArgs}}

\* _update_sources, lines 454-460: the url values of one tool-role content.
\* A content that is no tool result is an error payload, a dict without a
\* top-level "url" or "results"; a list has neither.
urls_of(text) ==
    IF \E r \in ToolResults : r.text = text
    THEN LET r == CHOOSE r \in ToolResults : r.text = text
         IN  Range(r.url) \cup Range(r.results)
    ELSE {}

\* _update_sources, lines 449-462, from message i on: the set urls (of JSON
\* values), or the TypeError of set.add on a value that is not hashable (a list).
RECURSIVE urls_from(_, _, _)
urls_from(msgs, i, urls) ==
    IF i > Len(msgs)
    THEN [raised |-> FALSE, urls |-> urls]
    ELSE IF msgs[i].role # "tool" \/ ~json_loads(msgs[i].content).ok
         THEN urls_from(msgs, i + 1, urls)
         ELSE LET found == urls_of(msgs[i].content)
              IN  IF \E v \in found : v.tag = "list"
                  THEN [raised |-> TRUE, urls |-> urls]
                  ELSE urls_from(msgs, i + 1, urls \cup found)

\* line 465: the heading of the block _update_sources appends
SourcesHeading == "\n\n## Sources from Research\n\n"

\* the order of < on the URL texts of the model
UrlOrder == <<"https://a", "https://b">>

\* line 467: sorted(urls) raises TypeError when the set holds None next to
\* strings; str and None do not compare
sortable(urls) == \A v, w \in urls : v.tag = w.tag

\* line 467: sorted(urls), as the texts an f-string makes of the values
sorted_urls(urls) ==
    IF \E v \in urls : v.tag = "null"
    THEN <<"None">>
    ELSE SelectSeq(UrlOrder, LAMBDA u : JsonStr(u) \in urls)

\* line 468: the lines written for the sorted values
RECURSIVE url_lines(_)
url_lines(sorted_values) ==
    IF sorted_values = <<>> THEN <<>>
    ELSE <<"- " \o Head(sorted_values) \o "\n">> \o url_lines(Tail(sorted_values))

\* line 464: open(sources_path, 'a') creates the file or keeps its content
open_append(file) == File(file.text)

\* _update_sources on a sources.md that is file: the URLs it collects (as
\* texts), whether it raises, whether it opened the file, and the file after
update_sources(msgs, file) ==
    LET c == urls_from(msgs, 1, {})
        urls == {v.text : v \in c.urls}
        opened == open_append(file)
        heading == File(Append(opened.text, SourcesHeading))
    IN  IF c.raised \/ c.urls = {}
        THEN [raised |-> c.raised, urls |-> urls, opened |-> FALSE, file |-> file]
        ELSE IF ~sortable(c.urls)
             THEN [raised |-> TRUE, urls |-> urls, opened |-> TRUE, file |-> heading]
             ELSE [raised |-> FALSE, urls |-> urls, opened |-> TRUE,
                   file |-> File(heading.text \o url_lines(sorted_urls(c.urls)))]

\* git add and git commit succeed, or one of them exits with an error
GitOutcomes == {"committed", "failed"}

\* mutant: the error of the git step is not caught
git_commit_uncaught(outcome) ==
    [git |-> outcome, console |-> "", raised |-> outcome = "failed"]

\* the git step of a phase (e.g. lines 79-95): subprocess.run(check=True)
\* raises CalledProcessError, which the phase answers with a warning
git_commit(outcome) ==
    [git |-> outcome, console |-> IF outcome = "failed" THEN "warning" ELSE "",
     raised |-> FALSE]

\* no git step: the phase saved nothing
NoCommit == [git |-> "", console |-> "", raised |-> FALSE]

\* the git step after the phase saved (or not) its artifacts
Commits(saved) == IF saved THEN {git_commit(o) : o \in GitOutcomes} ELSE {NoCommit}

\* what the phase returns after its git step
Returned(saved, g) == IF g.raised THEN "raised" ELSE IF saved THEN "True" ELSE "False"

\* what a phase reports when it returns
Outcome(ok, ret) == [approved |-> ok, returned |-> ret]

\* A phase sets up its conversation and calls generate_response.
SetUp(ph, tools) ==
    /\ messages' = add_user_message(
                       add_system_message(clear_history(messages), system_prompt(ph)),
                       user_prompt(ph))
    /\ pc' = "generate_response"
    /\ use_tools' = tools
    /\ allow_edit' = TRUE
    /\ iteration' = 0
    /\ calls' = 0
    /\ gens' = 1
    /\ content' = ""
    /\ approved' = FALSE
    /\ original' = ""
    /\ first' = TRUE
    /\ last' = [Did("start") EXCEPT !.n = 0]
    /\ UNCHANGED <<cfg_vars, temp_files>>

\* A phase returns without having called the backend.
Fails(ph) ==
    /\ outcomes' = Append(outcomes, Outcome(FALSE, "False"))
    /\ wf_pc' = run_full_workflow(ph, FALSE)
    /\ last' = Did("fails")
    /\ UNCHANGED <<messages, pc, iteration, use_tools, content, approved, allow_edit,
                   original, first, calls, gens, cfg_vars, temp_files>>

\* A phase returns after its approval loop.
Returns(ph, ret) ==
    /\ outcomes' = Append(outcomes, Outcome(approved, ret))
    /\ wf_pc' = IF ret = "raised" THEN "exit" ELSE run_full_workflow(ph, ret = "True")
    /\ pc' = "idle"
    /\ UNCHANGED <<messages, iteration, use_tools, content, approved, allow_edit,
                   original, first, calls, gens, topic, started, cfg_vars, temp_files>>

\* OllamaClient.TOOL_COMPATIBLE_MODELS
TOOL_COMPATIBLE_MODELS ==
    {"llama3.2", "llama3.1", "mistral-nemo", "qwen2.5", "command-r", "firefunction"}

\* GET /api/tags: the request fails, or answers with the names of the models
TagsResponses ==
    {[ok |-> FALSE, names |-> <<>>],
     [ok |-> TRUE, names |-> <<>>],
     [ok |-> TRUE, names |-> <<"phi3">>],
     [ok |-> TRUE, names |-> <<"phi3", "llama3.2">>]}

\* the names the backend may list: those of the tests of list_models, a name
\* without a tag, a name in upper case and a name that merely starts with a
\* known one
ModelNames ==
    {"llama3.2", "llama3.2:7b", "llama3.2:13b", "llama3.1:70b-instruct",
     "other-model:latest", "mistral:latest", "Llama3.2:latest", "qwen2.5-coder:7b"}

\* the characters of the names, in the order of their code points
CodePoints ==
    <<"-", ".", "0", "1", "2", "3", "4", "5", "6", "7", "8", "9", ":", "A",
      "B", "C", "D", "E", "F", "G", "H", "I", "J", "K", "L", "M", "N", "O",
      "P", "Q", "R", "S", "T", "U", "V", "W", "X", "Y", "Z", "a", "b", "c",
      "d", "e", "f", "g", "h", "i", "j", "k", "l", "m", "n", "o", "p", "q",
      "r", "s", "t", "u", "v", "w", "x", "y", "z">>

\* the position of a character in that order
rank(c) == CHOOSE i \in 1..Len(CodePoints) : CodePoints[i] = c

\* a str as the sequence of its characters
chars(name) ==
    CASE name = "llama3.2" ->
            <<"l", "l", "a", "m", "a", "3", ".", "2">>
      [] name = "phi3" ->
            <<"p", "h", "i", "3">>
      [] name = "llama3.2:7b" ->
            <<"l", "l", "a", "m", "a", "3", ".", "2", ":", "7", "b">>
      [] name = "llama3.2:13b" ->
            <<"l", "l", "a", "m", "a", "3", ".", "2", ":", "1", "3", "b">>
      [] name = "llama3.1:70b-instruct" ->
            <<"l", "l", "a", "m", "a", "3", ".", "1", ":", "7", "0", "b", "-", "i", "n", "s", "t", "r", "u", "c", "t">>
      [] name = "other-model:latest" ->
            <<"o", "t", "h", "e", "r", "-", "m", "o", "d", "e", "l", ":", "l", "a", "t", "e", "s", "t">>
      [] name = "mistral:latest" ->
            <<"m", "i", "s", "t", "r", "a", "l", ":", "l", "a", "t", "e", "s", "t">>
      [] name = "Llama3.2:latest" ->
            <<"L", "l", "a", "m", "a", "3", ".", "2", ":", "l", "a", "t", "e", "s", "t">>
      [] name = "qwen2.5-coder:7b" ->
            <<"q", "w", "e", "n", "2", ".", "5", "-", "c", "o", "d", "e", "r", ":", "7", "b">>
      [] name = "llama3.1" ->
            <<"l", "l", "a", "m", "a", "3", ".", "1">>
      [] name = "mistral-nemo" ->
            <<"m", "i", "s", "t", "r", "a", "l", "-", "n", "e", "m", "o">>
      [] name = "qwen2.5" ->
            <<"q", "w", "e", "n", "2", ".", "5">>
      [] name = "command-r" ->
            <<"c", "o", "m", "m", "a", "n", "d", "-", "r">>
      [] name = "firefunction" ->
            <<"f", "i", "r", "e", "f", "u", "n", "c", "t", "i", "o", "n">>

\* str.lower
lower(s) ==
    [i \in 1..Len(s) |->
        IF rank(s[i]) \in rank("A")..rank("Z")
        THEN CodePoints[rank(s[i]) + (rank("a") - rank("A"))]
        ELSE s[i]]

\* line 68: model.split(':')[0] if ':' in model else model
base_name(s) ==
    LET colons == {i \in 1..Len(s) : s[i] = ":"}
    IN  IF colons = {} THEN s
        ELSE SubSeq(s, 1, (CHOOSE i \in colons : \A j \in colons : i <= j) - 1)

\* str.startswith with one prefix
str_startswith(s, prefix) ==
    Len(prefix) <= Len(s) /\ SubSeq(s, 1, Len(prefix)) = prefix

\* mutant: the base name has to be one of the known names
check_model_is_known(model) ==
    \E compatible \in TOOL_COMPATIBLE_MODELS :
        lower(base_name(chars(model))) = lower(chars(compatible))

\* check_model_supports_tools
check_model_supports_tools(model) ==
    \E compatible \in TOOL_COMPATIBLE_MODELS :
        str_startswith(lower(base_name(chars(model))), lower(chars(compatible)))

\* s < t on str: at the first position where they differ s has ended or has
\* the smaller character
str_lt(s, t) ==
    \E i \in 1..Len(t) :
        /\ i <= Len(s) + 1
        /\ SubSeq(s, 1, i - 1) = SubSeq(t, 1, i - 1)
        /\ (i = Len(s) + 1 \/ rank(s[i]) < rank(t[i]))

\* sorted(): name is put into the sorted list done, behind the names that are
\* not greater
RECURSIVE insort(_, _)
insort(done, name) ==
    IF done = <<>> THEN <<name>>
    ELSE IF str_lt(chars(name), chars(Head(done)))
         THEN <<name>> \o done
         ELSE <<Head(done)>> \o insort(Tail(done), name)

\* sorted() on a list of names
RECURSIVE sorted(_)
sorted(names) ==
    IF names = <<>> THEN <<>>
    ELSE insort(sorted(SubSeq(names, 1, Len(names) - 1)), names[Len(names)])

\* OllamaClient.list_models: the list it returns, or that it raises
list_models(response, tool_compatible_only) ==
    IF ~response.ok
    THEN [raised |-> TRUE, models |-> <<>>]
    ELSE [raised |-> FALSE,
          models |-> sorted(IF tool_compatible_only
                            THEN SelectSeq(response.names, check_model_supports_tools)
                            ELSE response.names)]

\* cli.main, lines 155-160: the config of the first-time setup
SetupConfig(model) ==
    [OllamaConfig(model, "http://localhost:11434", Float(7), Float(9), 4096)
        EXCEPT !.created_at = now, !.updated_at = now]

\* the config file a first-time setup has written
SetupDocument == save(Absent, SetupConfig("llama3.2")).store

\* cli.main after config management: test_connection, lines 195-201
Connect(ok) ==
    \E connected \in BOOLEAN :
        /\ wf_pc' = IF ok /\ connected THEN "main" ELSE "exit"
        /\ last' = [Did("configure") EXCEPT !.console = IF ok /\ connected THEN "" ELSE "error"]

\* cli.main, lines 127-201: config management.  Without a config file the
\* user picks the first of the tool-compatible models and the config is saved.
Configure ==
    /\ wf_pc = "start"
    /\ pc = "idle"
    /\ IF ~store.exists
       THEN \E response \in TagsResponses :
               LET r == list_models(response, TRUE)
               IN  IF r.raised \/ r.models = <<>>
                   THEN /\ wf_pc' = "exit"
                        /\ store' = store
                        /\ last' = [Did("configure") EXCEPT
                                        !.raised = r.raised,
                                        !.models = r.models,
                                        !.console = "error",
                                        !.input = IF response.ok THEN "" ELSE "request failed"]
                   ELSE LET s == save(store, SetupConfig(r.models[1]))
                        IN  /\ store' = s.store
                            /\ Connect(s.ret)
       ELSE /\ store' = store
            /\ Connect(~load(store).is_none)
    /\ UNCHANGED <<messages, pc, iteration, use_tools, content, approved, allow_edit,
                   original, first, calls, gens, topic, files, written, sources, started,
                   outcomes,
                   cfg_op, temp_files>>

\* cli.main, lines 209-233: the topic prompt
Main ==
    /\ wf_pc = "main"
    /\ pc = "idle"
    /\ \E raw \in Topics :
          /\ topic' = StripTopic(raw)
          /\ wf_pc' = IF topic_given(StripTopic(raw)) THEN "constitution" ELSE "exit"
          /\ last' = [Did("main") EXCEPT !.input = raw]
    /\ UNCHANGED <<messages, pc, iteration, use_tools, content, approved, allow_edit,
                   original, first, calls, gens, files, written, sources, started,
                   outcomes,
                   cfg_vars, temp_files>>

\* run_constitution_phase, lines 41-63
run_constitution_phase ==
    /\ wf_pc = "constitution"
    /\ phase = "none"
    /\ pc = "idle"
    /\ started' = Append(started, "constitution")
    /\ SetUp("constitution", TRUE)
    /\ UNCHANGED <<wf_pc, topic, files, written, sources, outcomes>>

\* run_constitution_phase, lines 71-100
constitution_returns ==
    /\ phase = "constitution"
    /\ pc = "returned"
    /\ files' = persist(files, {"constitution"}, approved)
    /\ written' = persist(written, {"constitution"}, approved)
    /\ UNCHANGED sources
    /\ \E g \in Commits(approved) :
          /\ last' = [Did("constitution_returns") EXCEPT
                          !.text = IF approved THEN content ELSE "",
                          !.git = g.git,
                          !.console = g.console]
          /\ Returns("constitution", Returned(approved, g))

\* run_plan_phase, lines 111-153
run_plan_phase ==
    /\ wf_pc = "plan"
    /\ phase = "none"
    /\ pc = "idle"
    /\ started' = Append(started, "plan")
    /\ \/ \* plan.sh fails or times out
          /\ "plan.sh" \in files
          /\ Fails("plan")
          /\ UNCHANGED files
       \/ \* plan.sh succeeds, or there is no plan.sh
          /\ files' = IF "plan.sh" \in files THEN plan_sh(files) ELSE files
          /\ SetUp("plan", TRUE)
          /\ UNCHANGED <<wf_pc, outcomes>>
    /\ UNCHANGED <<topic, written, sources>>

\* run_plan_phase, lines 161-196
plan_returns ==
    /\ phase = "plan"
    /\ pc = "returned"
    /\ LET saved == approved /\ get_current_research_dir(files)
       IN  /\ files' = persist(files, {"plan"}, saved)
           /\ written' = persist(written, {"plan"}, saved)
           /\ UNCHANGED sources
           /\ \E g \in Commits(saved) :
                 /\ last' = [Did("plan_returns") EXCEPT
                                 !.text = IF saved THEN content ELSE "",
                                 !.git = g.git,
                                 !.console = g.console]
                 /\ Returns("plan", Returned(saved, g))

\* run_execute_phase, lines 204-242
run_execute_phase ==
    /\ wf_pc = "execute"
    /\ phase = "none"
    /\ pc = "idle"
    /\ started' = Append(started, "execute")
    /\ IF get_current_research_dir(files)
       THEN /\ SetUp("execute", TRUE)
            /\ UNCHANGED <<wf_pc, outcomes>>
       ELSE Fails("execute")
    /\ UNCHANGED <<topic, files, written, sources>>

\* run_execute_phase, lines 250-282
execute_returns ==
    /\ phase = "execute"
    /\ pc = "returned"
    /\ LET u == update_sources(messages, sources)
           opened == IF u.opened THEN {"sources"} ELSE {}
       IN  /\ files' = persist(files, {"findings"} \cup opened, approved)
           /\ written' = persist(written, {"findings"} \cup opened, approved)
           /\ sources' = IF approved THEN u.file ELSE sources
           /\ \E g \in Commits(approved /\ ~u.raised) :
                 /\ last' = [Did("execute_returns") EXCEPT
                                 !.urls = IF approved THEN u.urls ELSE {},
                                 !.text = IF approved THEN content ELSE "",
                                 !.raised = approved /\ u.raised,
                                 !.git = g.git,
                                 !.console = g.console]
                 /\ Returns("execute", IF approved /\ u.raised THEN "raised"
                                        ELSE Returned(approved, g))

\* run_synthesize_phase, lines 290-331
run_synthesize_phase ==
    /\ wf_pc = "synthesize"
    /\ phase = "none"
    /\ pc = "idle"
    /\ started' = Append(started, "synthesize")
    /\ IF get_current_research_dir(files)
       THEN /\ SetUp("synthesize", FALSE)
            /\ UNCHANGED <<wf_pc, outcomes>>
       ELSE Fails("synthesize")
    /\ UNCHANGED <<topic, files, written, sources>>

\* run_synthesize_phase, lines 339-382
synthesize_returns ==
    /\ phase = "synthesize"
    /\ pc = "returned"
    /\ files' = persist(files, {"synthesis", "synthesis_copy"}, approved)
    /\ written' = persist(written, {"synthesis", "synthesis_copy"}, approved)
    /\ UNCHANGED sources
    /\ \E g \in Commits(approved) :
          /\ last' = [Did("synthesize_returns") EXCEPT
                          !.text = IF approved THEN content ELSE "",
                          !.git = g.git,
                          !.console = g.console]
          /\ Returns("synthesize", Returned(approved, g))

\* the project directories a run of the workflow may find
ProjectStates == {{}, {"plan.sh"}}

\* the config files a run of the workflow may find
WorkflowStores == {Absent, Garbage, InvalidData, SetupDocument}

\* cli.main has checked the environment and is at its config management
WorkflowInit ==
    /\ Constructed
    /\ wf_pc = "start"
    /\ topic = ""
    /\ written = {}
    /\ sources = NoFile
    /\ started = <<>>
    /\ outcomes = <<>>
    /\ files \in ProjectStates
    /\ store \in WorkflowStores
    /\ cfg_op = NoConfigOp

WorkflowNext ==
    \/ Configure
    \/ Main
    \/ run_constitution_phase
    \/ constitution_returns
    \/ run_plan_phase
    \/ plan_returns
    \/ run_execute_phase
    \/ execute_returns
    \/ run_synthesize_phase
    \/ synthesize_returns
    \/ ChatToolCalls
    \/ ChatFinal
    \/ ChatError
    \/ MaxIterations
    \/ Accept
    \/ Edit
    \/ Feedback
    \/ Skip
    \/ Invalid

WorkflowSpec == WorkflowInit /\ [][WorkflowNext]_vars

\* the artifacts a phase writes once it is approved, in the order of its writes
WriteOrder(ph) ==
    CASE ph = "constitution" -> <<"constitution">>
      [] ph = "plan" ->
            IF get_current_research_dir(files) THEN <<"plan">> ELSE <<>>
      [] ph = "execute" ->
            IF update_sources(messages, sources).opened
            THEN <<"findings", "sources">>
            ELSE <<"findings">>
      [] OTHER -> <<"synthesis", "synthesis_copy">>

\* The user presses Ctrl+C while a phase runs.  KeyboardInterrupt is no
\* Exception, so no handler of the engine, the tools or the phases catches it;
\* cli.main (lines 234-236) prints "Research cancelled by user" and exits with
\* status 0.  It arrives during the chat loop or the approval loop, or, once
\* the loop has returned approved, after any number of the phase's writes.
Interrupt ==
    /\ phase # "none"
    /\ pc \in {"generate_response", "approval_loop", "returned"}
    /\ \E k \in 0..Len(WriteOrder(phase)) :
          /\ k > 0 => (pc = "returned" /\ approved)
          /\ files' = files \cup Range(SubSeq(WriteOrder(phase), 1, k))
          /\ written' = written \cup Range(SubSeq(WriteOrder(phase), 1, k))
          /\ sources' = IF "sources" \in Range(SubSeq(WriteOrder(phase), 1, k))
                        THEN update_sources(messages, sources).file
                        ELSE sources
    /\ pc' = "interrupted"
    /\ wf_pc' = "cancelled"
    /\ last' = [Did("interrupt") EXCEPT !.console = "cancelled"]
    /\ UNCHANGED <<messages, iteration, use_tools, content, approved, allow_edit,
                   original, first, calls, gens, topic, started, outcomes,
                   cfg_vars, temp_files>>

InterruptSpec == WorkflowInit /\ [][WorkflowNext \/ Interrupt]_vars

\* the project directories run_execute_phase may be called on
ExecuteProjectStates ==
    {{}, {"research_dir"}, {"research_dir", "plan"}, {"research_dir", "plan", "sources"}}

\* run_full_workflow is at its call of run_execute_phase (line 399)
ExecuteInit ==
    /\ Constructed
    /\ wf_pc = "execute"
    /\ topic = "quantum"
    /\ written = {}
    /\ started = <<>>
    /\ outcomes = <<>>
    /\ files \in ExecuteProjectStates
    /\ sources = IF "sources" \in files THEN File(<<SourcesTemplate>>) ELSE NoFile
    /\ store = Absent
    /\ cfg_op = NoConfigOp

ExecuteNext ==
    \/ run_execute_phase
    \/ execute_returns
    \/ run_synthesize_phase
    \/ synthesize_returns
    \/ ChatToolCalls
    \/ ChatFinal
    \/ ChatError
    \/ MaxIterations
    \/ Accept
    \/ Edit
    \/ Feedback
    \/ Skip
    \/ Invalid

ExecuteSpec == ExecuteInit /\ [][ExecuteNext]_vars

(***************************************************************************)
(* The configuration alone: any sequence of save, load and delete on the   *)
(* config file of one project directory; and validate on any config.       *)
(***************************************************************************)
\* the config files a project directory may hold before the first operation
StoredDocuments == {Absent, Garbage, InvalidData, ExtraKey}

ConfigInit ==
    /\ Constructed
    /\ NoWorkflow
    /\ files = {}
    /\ store \in StoredDocuments
    /\ cfg_op = NoConfigOp

\* manager.save(config)
Save ==
    /\ \E config \in SavedConfigs :
          LET r == save(store, config)
          IN  /\ store' = r.store
              /\ cfg_op' = CfgDid("save", r.config, r.ret, store)
    /\ UNCHANGED <<engine_vars, wf_vars, temp_files>>

\* manager.load(); the config of the operation before it is kept for comparison
Load ==
    /\ cfg_op' = [CfgDid("load", cfg_op.config, ~load(store).is_none, store)
                     EXCEPT !.loaded = load(store)]
    /\ UNCHANGED <<engine_vars, wf_vars, store, temp_files>>

\* manager.delete()
Delete ==
    /\ \E outcome \in UnlinkOutcomes :
          LET r == delete(store, outcome)
          IN  /\ store' = r.store
              /\ cfg_op' = CfgDid("delete", cfg_op.config, r.ret, store)
    /\ UNCHANGED <<engine_vars, wf_vars, temp_files>>

ConfigNext ==
    \/ Save
    \/ Load
    \/ Delete

ConfigSpec == ConfigInit /\ [][ConfigNext]_vars

\* a config object was constructed
ValidateInit ==
    /\ Constructed
    /\ NoWorkflow
    /\ files = {}
    /\ store = Absent
    /\ \E config \in Configs : cfg_op = [NoConfigOp EXCEPT !.config = config]

\* config.validate()
Validate ==
    /\ cfg_op.op = "init"
    /\ cfg_op' = [CfgDid("validate", cfg_op.config, validate(cfg_op.config).is_valid, store)
                     EXCEPT !.error = validate(cfg_op.config).error]
    /\ UNCHANGED <<engine_vars, wf_vars, store, temp_files>>

ValidateSpec == ValidateInit /\ [][Validate]_vars

(***************************************************************************)
(* list_models as a function of the backend's answer and of its parameter. *)
(***************************************************************************)
\* the backend lists at most MaxModels models
MaxModels == 3

\* GET /api/tags: the request fails, or answers with a list of names
ListedResponses ==
    {[ok |-> FALSE, names |-> <<>>]}
        \cup {[ok |-> TRUE, names |-> l] :
                 l \in UNION {[1..k -> ModelNames] : k \in 0..MaxModels}}

\* a client was constructed and list_models is about to be called
ListModelsInit ==
    /\ EngineConstructed
    /\ NoWorkflow
    /\ files = {}
    /\ store = Absent
    /\ cfg_op = NoConfigOp
    /\ \E response \in ListedResponses, only \in BOOLEAN :
          last = [NoOperation EXCEPT !.response = response,
                                     !.tool_compatible_only = only]

\* client.list_models(tool_compatible_only)
ListModels ==
    /\ last.op = "init"
    /\ LET r == list_models(last.response, last.tool_compatible_only)
       IN  last' = [last EXCEPT !.op = "list_models", !.raised = r.raised,
                                !.models = r.models]
    /\ UNCHANGED <<messages, pc, iteration, use_tools, content, approved, allow_edit,
                   original, first, calls, gens, wf_vars, cfg_vars, temp_files>>

ListModelsSpec == ListModelsInit /\ [][ListModels]_vars


(***************************************************************************)
(* Properties.                                                             *)
(***************************************************************************)
Max(S) == CHOOSE x \in S : \A y \in S : y <= x

\* the last message before position i that is no tool-role message (0: none)
Anchor(i) ==
    LET S == {j \in 1..(i - 1) : messages[j].role # "tool"}
    IN  IF S = {} THEN 0 ELSE Max(S)

\* the number of tool-role messages that follow position a without a gap
BlockLen(a) ==
    Cardinality({k \in (a + 1)..Len(messages) :
                    \A j \in (a + 1)..k : messages[j].role = "tool"})

\* the tool-role message m is a result of the request req
Answers(m, req) ==
    LET arguments == parse_arguments(req.arguments)
    IN  IF req.name \in TOOL_REGISTRY
        THEN m.content \in {ToolOutput(req.name, arguments),
                            ErrorPayload(TypeErrorText(req.name), req.name, arguments)}
        ELSE m.content = "{\"error\": \"" \o NotFoundText(req.name) \o "\"}"

\* C1: every tool-role message lies in a block that directly follows an
\* assistant message with tool-call requests; the block has one tool-role
\* message per request of that message, the k-th answering the k-th request.
C1_ToolBlocks ==
    \A i \in 1..Len(messages) :
        messages[i].role = "tool" =>
            LET a == Anchor(i)
            IN  /\ a > 0
                /\ messages[a].role = "assistant"
                /\ messages[a].tool_calls # <<>>
                /\ BlockLen(a) = Len(messages[a].tool_calls)
                /\ Answers(messages[i], messages[a].tool_calls[i - a])

\* C1 witness: a block of three results (a success, a tool that raised, an
\* unregistered tool) is followed by a second block and a final answer.
C1_Witness ==
    /\ Len(messages) >= 9
    /\ Len(messages[3].tool_calls) = 3
    /\ messages[5].content =
           ErrorPayload(TypeErrorText("fetch_url"), "fetch_url",
                        [tag |-> "map", text |-> EmptyArgs])
    /\ messages[6].content = "{\"error\": \"" \o NotFoundText("nope") \o "\"}"
    /\ messages[7].tool_calls # <<>>
    /\ messages[8].role = "tool"
    /\ messages[9].role = "assistant"

\* C3: an invocation of generate_response makes at most max_iterations backend
\* calls; when the ceiling is reached it warns and returns ""; an invocation
\* started by feedback counts from zero; and every invocation ends.
C3_Ceiling ==
    /\ calls <= max_iterations
    /\ last.op = "max_iterations" =>
           /\ calls = max_iterations
           /\ pc = "approval_loop"
           /\ content = ""
           /\ last.console = "warning"
    /\ last.op \in {"start", "feedback"} =>
           /\ pc = "generate_response"
           /\ calls = 0
           /\ iteration = 0

C3_Terminates ==
    /\ []C3_Ceiling
    /\ (pc = "generate_response") ~> (pc = "approval_loop")

\* C3 witness: the second invocation of a phase reaches the ceiling after ten
\* calls of its own.
C3_Witness ==
    /\ last.op = "max_iterations"
    /\ gens = 2
    /\ calls = 10
    /\ Len(messages) >= 23

\* C4: after a failed backend call the invocation has returned "" to its
\* caller, reported an error, and appended nothing; it made no further call.
C4_BackendFailure ==
    last.op = "chat_error" =>
        /\ pc = "approval_loop"
        /\ content = ""
        /\ last.console = "error"
        /\ Len(messages) = last.n
        /\ calls = iteration

\* C4 witness: the backend fails in the second iteration, after a tool turn.
C4_Witness ==
    /\ last.op = "chat_error"
    /\ calls = 2
    /\ messages[Len(messages)].role = "tool"

\* C5: a reply without tool calls appends exactly one assistant message with
\* the reply's text ("" when it has none) and returns that text.
C5_FinalReply ==
    last.op = "final" =>
        LET text == IF last.reply.present THEN last.reply.text ELSE ""
        IN  /\ pc = "approval_loop"
            /\ Len(messages) = last.n + 1
            /\ messages[Len(messages)] =
                   [role |-> "assistant", content |-> text, tool_calls |-> <<>>]
            /\ content = text

\* C5 witness: a reply without text, after a tool turn.
C5_Witness ==
    /\ last.op = "final"
    /\ ~last.reply.present
    /\ content = ""
    /\ Len(messages) >= 5


\* C9: accept entered at the first prompt returns the content the loop was
\* called with, approved, and leaves the history as it was.
C9_AcceptFirst ==
    [][(pc = "approval_loop" /\ first /\ last'.op = "accept") =>
          /\ pc' = "returned"
          /\ content = original
          /\ content' = original
          /\ approved' = TRUE
          /\ messages' = messages]_vars

\* C9 witness: a generated answer was accepted at the first prompt.
C9_Witness ==
    /\ pc = "returned"
    /\ last.op = "accept"
    /\ first
    /\ approved
    /\ content = "answer"

\* C10: skip returns the content then under review, not approved, whatever
\* edits, regenerations and invalid inputs came before.
C10_Skip ==
    [][(pc = "approval_loop" /\ last'.op = "skip") =>
          /\ pc' = "returned"
          /\ content' = content
          /\ approved' = FALSE
          /\ messages' = messages]_vars

\* C10 witness: skip after a regeneration and an edit returns the edited text.
C10_Witness ==
    /\ pc = "returned"
    /\ last.op = "skip"
    /\ ~first
    /\ ~approved
    /\ gens = 2
    /\ content = "edited"
    /\ content # original

\* a reply all of whose tool-call entries are dicts with a function dict
WellFormed(tool_calls) == \A i \in 1..Len(tool_calls) : tool_calls[i].kind = "dict"

\* the turn completed and the result of request i is in the history
Appended(i) ==
    /\ ~last.raised
    /\ pc = "generate_response"
    /\ Len(messages) >= last.n + 1 + i
    /\ messages[last.n + 1 + i].role = "tool"

\* C2 as claimed: after a reply with exactly one tool-call request the history
\* has grown by that assistant message and one tool-role message, and the loop
\* is at its next backend call.
C2_OneRequest ==
    (last.op = "tool_calls" /\ Len(last.tool_calls) = 1 /\ WellFormed(last.tool_calls)) =>
        /\ Len(messages) = last.n + 2
        /\ messages[last.n + 1] = ToolCallMessage(last.tool_calls)
        /\ Appended(1)

\* C6 as claimed: every invocation of an unregistered name ends in a tool-role
\* message in the history whose error names the tool, and the loop goes on.
C6_UnknownTool ==
    (last.op = "tool_calls" /\ WellFormed(last.tool_calls)) =>
        \A i \in 1..Len(last.invoked) :
            last.invoked[i].name \notin TOOL_REGISTRY =>
                /\ Appended(i)
                /\ messages[last.n + 1 + i].content =
                       "{\"error\": \"" \o NotFoundText(last.invoked[i].name) \o "\"}"

\* C7 as claimed: when a registered tool raises, its error result (exception
\* text, tool name, arguments) is in the history, every request of the reply
\* was executed, and the loop goes on.
C7_ToolRaises ==
    (last.op = "tool_calls" /\ WellFormed(last.tool_calls)) =>
        \A i \in 1..Len(last.invoked) :
            LET c == last.invoked[i]
            IN  (c.name \in TOOL_REGISTRY /\ ToolRaises(c.name, c.arguments)) =>
                    /\ Len(last.invoked) = Len(last.tool_calls)
                    /\ Appended(i)
                    /\ messages[last.n + 1 + i].content =
                           ErrorPayload(TypeErrorText(c.name), c.name, c.arguments)

\* the string parses to no argument mapping
NoMapping(text) == ~json_loads(text).ok \/ json_loads(text).tag # "map"

\* C8 as claimed: a request whose arguments are a string that parses to no
\* mapping is executed with empty arguments (when its tool is registered), gets
\* its tool-role message, and the turn goes on.
C8_MalformedArguments ==
    (last.op = "tool_calls" /\ WellFormed(last.tool_calls)) =>
        \A i \in 1..Len(last.tool_calls) :
            LET req == last.tool_calls[i]
            IN  (req.arguments.tag = "str" /\ NoMapping(req.arguments.text)) =>
                    /\ Appended(i)
                    /\ req.name \in TOOL_REGISTRY =>
                           last.invoked[i].arguments = [tag |-> "map", text |-> EmptyArgs]

\* C11: feedback with non-empty text appends exactly one user message holding
\* that text, re-runs the chat loop from its first call, and the loop's result
\* becomes the content under review; feedback with empty text changes neither
\* the content nor the history and makes no backend call.
C11_Feedback ==
    [][/\ (pc = "approval_loop" /\ last'.op = "feedback") =>
              /\ \E line \in FeedbackLines :
                    /\ Strip(line) # ""
                    /\ messages' = Append(messages, Msg("user", Strip(line)))
              /\ pc' = "generate_response"
              /\ calls' = 0
       /\ (pc = "approval_loop" /\ last'.op = "no_feedback") =>
              /\ messages' = messages
              /\ content' = content
              /\ calls' = calls
              /\ pc' = "approval_loop"
       /\ (pc = "generate_response" /\ pc' = "approval_loop" /\ gens > 1) =>
              content' = IF last'.op = "final"
                         THEN messages'[Len(messages')].content
                         ELSE ""]_vars

\* C11 witness: the first result was empty, the user gave feedback, and the
\* regenerated answer is now under review.
C11_Witness ==
    /\ pc = "approval_loop"
    /\ gens = 2
    /\ original = ""
    /\ content = "answer"
    /\ last.op = "final"
    /\ \E i \in 1..Len(messages) : messages[i] = Msg("user", "more detail")

\* C12: an input that is none of accept, edit, feedback, skip, and the edit
\* input when editing is not allowed, leaves the content, the approval and the
\* history unchanged, makes no backend call and prompts again; the editor is
\* opened only when editing is allowed.
C12_Invalid ==
    [][pc = "approval_loop" =>
          /\ last'.op = "invalid" =>
                 /\ messages' = messages
                 /\ content' = content
                 /\ approved' = approved
                 /\ calls' = calls
                 /\ pc' = "approval_loop"
          /\ last'.op = "edit" => allow_edit]_vars

\* C12 witness: "e" was rejected because editing is not allowed.
C12_Witness ==
    /\ pc = "approval_loop"
    /\ last.op = "invalid"
    /\ last.input = "e"
    /\ ~allow_edit
    /\ content = "answer"

\* C13 as claimed: the approval loop is left only by accept or skip.
C13_OnlyAcceptOrSkip ==
    pc \in {"returned", "crashed"} => last.op \in {"accept", "skip"}

\* the artifacts a phase writes
ArtifactsOf(ph) ==
    CASE ph = "constitution" -> {"constitution"}
      [] ph = "plan" -> {"plan"}
      [] ph = "execute" -> {"findings", "sources"}
      [] OTHER -> {"synthesis", "synthesis_copy"}

\* C14: an artifact has been written only if the approval loop of its phase
\* returned approved; a phase whose approval loop did not return approved has
\* written nothing and has returned failure.
C14_WrittenAfterApproval ==
    /\ written \subseteq UNION {ArtifactsOf(ph) : ph \in Range(started)}
    /\ \A i \in 1..Len(started) :
          LET artifacts == ArtifactsOf(started[i]) \cap written
          IN  /\ artifacts # {} => (i <= Len(outcomes) /\ outcomes[i].approved)
              /\ (i <= Len(outcomes) /\ ~outcomes[i].approved) =>
                     (artifacts = {} /\ outcomes[i].returned = "False")

\* C14 witness: the constitution was skipped and is not written; the later
\* phases were approved and all their artifacts are written.
C14_Witness ==
    /\ Len(outcomes) = 4
    /\ ~outcomes[1].approved
    /\ written = {"plan", "findings", "sources", "synthesis", "synthesis_copy"}

\* C15: the phases start in the order Constitution, Plan, Execute, Synthesize,
\* each at most once; Plan is the next phase once Constitution has returned,
\* whatever it returned; Execute has started only if Plan returned success and
\* Synthesize only if Execute returned success.
C15_PhaseOrder ==
    LET order == <<"constitution", "plan", "execute", "synthesize">>
    IN  /\ Len(started) <= 4
        /\ \A i \in 1..Len(started) : started[i] = order[i]
        /\ (Len(started) = 1 /\ Len(outcomes) = 1) => wf_pc = "plan"
        /\ Len(started) >= 3 => outcomes[2].returned = "True"
        /\ Len(started) >= 4 => outcomes[3].returned = "True"
        /\ \A i \in {2, 3} :
              (i <= Len(outcomes) /\ outcomes[i].returned = "False") =>
                  (Len(started) = i /\ wf_pc = "aborted")

\* C15 witness: all four phases have run although Constitution failed.
C15_Witness ==
    /\ Len(started) = 4
    /\ Len(outcomes) = 4
    /\ outcomes[1].returned = "False"
    /\ wf_pc = "done"

\* C16 as claimed: the Execute phase never gets past its start while no plan
\* artifact exists, and after it returned failure no further phase starts.
C16_NoPlan ==
    /\ ~(phase = "execute" /\ "plan" \notin files)
    /\ (Len(outcomes) >= 1 /\ outcomes[1].returned = "False") => Len(started) = 1

\* C17: with an empty topic the run ends at the topic prompt: no phase has
\* started, no conversation was set up and no backend call was made.
C17_EmptyTopic ==
    (wf_pc \notin {"start", "main"} /\ topic = "") =>
        /\ wf_pc = "exit"
        /\ started = <<>>
        /\ messages = <<>>
        /\ pc = "idle"
        /\ gens = 0
        /\ calls = 0

\* C17 witness: a topic of blanks ended the run.
C17_Witness ==
    /\ wf_pc = "exit"
    /\ last.op = "main"
    /\ last.input = "  "
    /\ topic = ""

\* C18: while a phase runs, its history starts with that phase's system
\* prompt and user prompt and holds no other system message and no other
\* phase's prompt; at the phase's first backend call it holds nothing else.
C18_NoLeak ==
    phase # "none" =>
        /\ Len(messages) >= 2
        /\ messages[1] = Msg("system", system_prompt(phase))
        /\ messages[2] = Msg("user", user_prompt(phase))
        /\ \A i \in 3..Len(messages) :
              /\ messages[i].role # "system"
              /\ messages[i].role = "user" =>
                     \E line \in FeedbackLines : messages[i].content = Strip(line)
        /\ (pc = "generate_response" /\ gens = 1 /\ calls = 0) => Len(messages) = 2

\* C18 witness: the Synthesize phase is at its first backend call after three
\* phases with conversations of their own.
C18_Witness ==
    /\ phase = "synthesize"
    /\ pc = "generate_response"
    /\ gens = 1
    /\ calls = 0
    /\ written = {"constitution", "plan", "findings", "sources"}

\* C19 as claimed: in the Synthesize phase no backend call is made with the
\* tool schemas and no tool is invoked.
C19_SynthesizeWithoutTools ==
    phase = "synthesize" =>
        /\ ~(pc = "generate_response" /\ use_tools)
        /\ last.invoked = <<>>

\* the url values in the tool-role messages of the conversation
FoundUrls ==
    UNION {urls_of(messages[i].content) :
              i \in {j \in 1..Len(messages) : messages[j].role = "tool"}}

\* C20 as claimed: an approved Execute phase returns success, having collected
\* exactly the url values of its tool-role messages, and has appended to the
\* sources artifact exactly when there are any.
C20_Sources ==
    (last.op = "execute_returns" /\ outcomes[Len(outcomes)].approved) =>
        /\ outcomes[Len(outcomes)].returned = "True"
        /\ last.urls = {v.text : v \in FoundUrls}
        /\ ("sources" \in written) = (FoundUrls # {})

\* the fields a reload has to reproduce
RoundTripFields == {"model", "temperature", "top_p", "num_ctx", "ollama_url", "version"}

\* C21: a load that directly follows a save that returned True returns a
\* config whose model, temperature, top_p, num_ctx, URL and version are those
\* of the config that was saved.
C21_RoundTrip ==
    (cfg_op.op = "load" /\ cfg_op.saved) =>
        /\ ~cfg_op.loaded.is_none
        /\ \A k \in RoundTripFields : cfg_op.loaded.config[k] = cfg_op.config[k]

\* C21 witness: the config of test_save_and_load was saved and loaded.
C21_Witness ==
    /\ cfg_op.op = "load"
    /\ cfg_op.saved
    /\ cfg_op.config.model = "llama3.2"
    /\ cfg_op.config.temperature = Float(5)
    /\ cfg_op.config.num_ctx = 8192
    /\ cfg_op.loaded.config.num_ctx = 8192

\* the config file is absent or holds a config that load accepts
StoredValid(doc) == ~doc.exists \/ ~load(doc).is_none

\* C22 as claimed: a save of a config that fails validation returns False and
\* leaves the config file as it was; and no save or delete turns an absent or
\* valid config file into one that is present and not valid.
C22_InvalidNeverStored ==
    /\ (cfg_op.op = "save" /\ ~validate(cfg_op.config).is_valid) =>
           /\ ~cfg_op.ret
           /\ store = cfg_op.before
    /\ (cfg_op.op \in {"save", "delete"} /\ StoredValid(cfg_op.before)) =>
           StoredValid(store)

\* lo <= f <= hi as a statement about numbers, in tenths
Between(f, lo, hi) == ~f.nan /\ lo <= f.tenths /\ f.tenths <= hi

\* the checks of the claim, in its order: is the check passed, and the
\* message when it is the first that fails
Checks(config) ==
    <<[passed |-> config.model # "", error |-> "Model name is required"],
      [passed |-> config.ollama_url # "", error |-> "Ollama URL is required"],
      [passed |-> startswith(config.ollama_url, {"http://", "https://"}),
       error |-> "Ollama URL must start with http:// or https://"],
      [passed |-> Between(config.temperature, 0, 20),
       error |-> "Temperature must be between 0.0 and 2.0"],
      [passed |-> Between(config.top_p, 0, 10),
       error |-> "top_p must be between 0.0 and 1.0"],
      [passed |-> config.num_ctx >= 512, error |-> "num_ctx must be at least 512"]>>

\* C23 as claimed: validate accepts a config exactly when it passes all six
\* checks, and otherwise returns invalid with the message of the first check,
\* in the order of the claim, that fails.
C23_Validate ==
    cfg_op.op = "validate" =>
        LET checks == Checks(cfg_op.config)
            failing == {i \in 1..Len(checks) : ~checks[i].passed}
        IN  /\ cfg_op.ret = (failing = {})
            /\ failing # {} =>
                   cfg_op.error = checks[CHOOSE i \in failing : \A j \in failing : i <= j].error

\* the same for the configs whose temperature and top_p are numbers
C23_ValidateNumbers ==
    (~cfg_op.config.temperature.nan /\ ~cfg_op.config.top_p.nan) => C23_Validate

\* the config file is there and is unparseable or holds a config that fails
\* validation
StoredInvalid(doc) ==
    doc.exists /\ (~doc.complete \/ ~validate(from_dict(doc.members)).is_valid)

\* C24: load returns no config for a config file that is unparseable or fails
\* validation, and a run that finds such a file has exited at its config
\* management: it starts no phase and makes no call of the chat backend.
C24_InvalidConfigBlocks ==
    StoredInvalid(store) =>
        /\ load(store).is_none
        /\ wf_pc \in {"start", "exit"}
        /\ started = <<>>
        /\ pc = "idle"
        /\ calls = 0
        /\ messages = <<>>

\* C24 witness: the run found a config with an empty model and has exited.
C24_Witness ==
    /\ store = InvalidData
    /\ wf_pc = "exit"
    /\ last.op = "configure"
    /\ last.console = "error"

\* C29 as claimed: when the request to the backend fails, list_models returns
\* an empty list and does not raise.
C29_ListModelsError ==
    (last.op = "configure" /\ last.input = "request failed") =>
        /\ ~last.raised
        /\ last.models = <<>>

\* the artifacts a phase saves when it is approved (the sources only when a
\* URL was found)
SavedBy(ph) ==
    CASE ph = "constitution" -> {"constitution"}
      [] ph = "plan" -> {"plan"}
      [] ph = "execute" -> {"findings"}
      [] OTHER -> {"synthesis", "synthesis_copy"}

\* C25: when the git add or commit of a phase fails, the phase prints a
\* warning and returns True, the artifacts it saved are still there, and the
\* workflow goes on with the next phase (after the last phase, it is done).
C25_GitFailureNotFatal ==
    last.git = "failed" =>
        LET ph == started[Len(started)]
        IN  /\ Len(outcomes) = Len(started)
            /\ last.console = "warning"
            /\ outcomes[Len(outcomes)] = Outcome(TRUE, "True")
            /\ SavedBy(ph) \subseteq files
            /\ wf_pc = run_full_workflow(ph, TRUE)
            /\ wf_pc \notin {"exit", "aborted"}

\* C25 witness: the commit of the execute phase failed, the findings are
\* saved and the workflow is about to run the synthesize phase.
C25_Witness ==
    /\ last.git = "failed"
    /\ last.op = "execute_returns"
    /\ wf_pc = "synthesize"
    /\ {"constitution", "plan", "findings"} \subseteq files

\* C26 as claimed: after an interrupt during a phase the run has ended with
\* the exit of a cancelled run, the interrupted phase has not returned and
\* nothing more can happen, so no later phase is started; and the interrupted
\* phase has left none of its artifacts, or all of them.
C26_Interrupt ==
    wf_pc = "cancelled" =>
        LET ph == started[Len(started)]
            left == written \cap ArtifactsOf(ph)
        IN  /\ Len(started) = Len(outcomes) + 1
            /\ last.console = "cancelled"
            /\ ~ENABLED (WorkflowNext \/ Interrupt)
            /\ left \in {{}, Range(WriteOrder(ph))}

\* the same without the part on the artifacts
C26_GracefulAbort ==
    wf_pc = "cancelled" =>
        /\ Len(started) = Len(outcomes) + 1
        /\ last.console = "cancelled"
        /\ ~ENABLED (WorkflowNext \/ Interrupt)

IsPrefix(s, t) == Len(s) <= Len(t) /\ SubSeq(t, 1, Len(s)) = s

\* C28: every step of the chat loop and of the approval loop leaves the
\* messages it found in place and unchanged, and at most appends to them.
C28_AppendOnly ==
    [][(pc \in {"generate_response", "approval_loop"}) =>
          IsPrefix(messages, messages')]_vars

\* C28 witness: both loops have appended: a tool turn and an answer, then a
\* feedback message and the turns of the regeneration.
C28_Witness ==
    /\ pc = "approval_loop"
    /\ gens = 2
    /\ last.op = "final"
    /\ Len(messages) >= 9
    /\ messages[4].role = "tool"
    /\ \E i \in 5..Len(messages) : messages[i].role = "user"

\* C30 as claimed: a Plan phase whose approval loop returned approved has
\* returned True, and the plan and its container, the research directory,
\* exist.
C30_ApprovedPlanSaved ==
    \A i \in 1..Len(outcomes) :
        (started[i] = "plan" /\ outcomes[i].approved) =>
            /\ outcomes[i].returned = "True"
            /\ {"research_dir", "plan"} \subseteq files

(***************************************************************************)
(* Serialized tool results.                                                *)
(***************************************************************************)
\* the parsed arguments a request may carry
ArgumentValues ==
    {[tag |-> t, text |-> x] : t \in {"map", "list"},
                               x \in {QueryArgs, UrlArgs, UrlListArgs, NullUrlArgs,
                                       EmptyArgs, ListArgs}}

\* json.dumps of the dict a tool returned
SuccessPayloads ==
    {ToolOutput(c[1], c[2]) :
        c \in {d \in TOOL_REGISTRY \X ArgumentValues : ~ToolRaises(d[1], d[2])}}

\* json.dumps of {"error", "tool", "arguments"}: the tool raised
RaisedPayloads ==
    {"{\"error\": \"" \o TypeErrorText(n) \o "\", \"tool\": \"" \o n
         \o "\", \"arguments\": " \o a.text \o "}" :
        n \in TOOL_REGISTRY, a \in ArgumentValues}

\* json.dumps of {"error"}: the tool is not registered
NotFoundPayloads ==
    {"{\"error\": \"Tool '" \o n \o "' not found in registry\"}" : n \in {"nope", ""}}

\* the result messages of the last tool-calling iteration
ResultOf(k) == messages[last.n + 1 + k].content

\* C31: the content of every tool-role message is the JSON text of one
\* ToolResult object, a success payload or an error payload; the tool that
\* returned yields a success payload, the tool that raised an error payload
\* naming the tool and its arguments, the unregistered tool an error payload.
C31_SerializedResults ==
    /\ \A i \in 1..Len(messages) :
          messages[i].role = "tool" =>
              messages[i].content \in
                  SuccessPayloads \cup RaisedPayloads \cup NotFoundPayloads
    /\ (last.op = "tool_calls" /\ ~last.raised) =>
          \A k \in 1..Len(last.invoked) :
              LET inv == last.invoked[k]
              IN  /\ messages[last.n + 1 + k].role = "tool"
                  /\ IF inv.name \notin TOOL_REGISTRY
                     THEN ResultOf(k) \in NotFoundPayloads
                     ELSE IF ToolRaises(inv.name, inv.arguments)
                          THEN ResultOf(k) \in RaisedPayloads
                          ELSE ResultOf(k) \in SuccessPayloads

\* C31 witness: one iteration executed a tool that returned, a tool that
\* raised and an unregistered tool, and the three results are in the history.
C31_Witness ==
    /\ last.op = "tool_calls"
    /\ ~last.raised
    /\ Len(messages) = last.n + 1 + Len(last.invoked)
    /\ \E i, j, k \in 1..Len(last.invoked) :
          /\ ResultOf(i) \in SuccessPayloads
          /\ ResultOf(j) \in RaisedPayloads
          /\ ResultOf(k) \in NotFoundPayloads

\* the position of a URL line in the order of the URL texts
UrlRank(line) ==
    LET at == {k \in 1..Len(UrlOrder) : line = "- " \o UrlOrder[k] \o "\n"}
    IN  IF at = {} THEN 0 ELSE CHOOSE k \in at : TRUE

\* C32 as claimed: the sources update of an approved Execute phase leaves the
\* artifact as it was (absent or present) when it collected no URL; otherwise
\* the artifact is its previous text followed by the heading and one line per
\* collected URL, each once, in sorted order.
C32_SourcesAppended ==
    (last.op = "execute_returns" /\ outcomes[Len(outcomes)].approved) =>
        IF last.urls = {}
        THEN sources = last.sources
        ELSE LET old == Len(last.sources.text)
                 lines == SubSeq(sources.text, old + 2, Len(sources.text))
             IN  /\ sources.exists
                 /\ Len(sources.text) = old + 1 + Cardinality(last.urls)
                 /\ SubSeq(sources.text, 1, old) = last.sources.text
                 /\ sources.text[old + 1] = SourcesHeading
                 /\ Range(lines) = {"- " \o u \o "\n" : u \in last.urls}
                 /\ \A i, j \in 1..Len(lines) :
                       i < j => UrlRank(lines[i]) < UrlRank(lines[j])

\* C33 as claimed: delete returns True whether or not a config file exists
\* and leaves no config file; a delete that directly follows a delete leaves
\* the store as it was.
C33_DeleteIdempotent ==
    cfg_op.op = "delete" =>
        /\ cfg_op.ret
        /\ ~store.exists
        /\ (cfg_op.before = Absent \/ cfg_op.deleted) => store = cfg_op.before

\* C33, amended: delete returns True when no config file exists, and leaves
\* the store as it was; on an existing file it returns True and the file is
\* gone, or the removal failed and it returns False and the file is as it was.
\* After a delete that returned True, a second delete leaves the store
\* unchanged and returns True.
C33_DeleteIdempotentUnlessFailed ==
    cfg_op.op = "delete" =>
        /\ ~cfg_op.before.exists => (cfg_op.ret /\ store = cfg_op.before)
        /\ cfg_op.ret => ~store.exists
        /\ ~cfg_op.ret => (cfg_op.before.exists /\ store = cfg_op.before)
        /\ cfg_op.deleted => (cfg_op.ret /\ store = cfg_op.before)

\* C33 witness: after a save, a delete returned True, and the delete that
\* directly followed it has found no file and returned True.
C33_Witness ==
    /\ cfg_op.op = "delete"
    /\ cfg_op.deleted
    /\ cfg_op.ret
    /\ ~store.exists
    /\ cfg_op.config.model = "llama3.2"

\* how often name occurs in the list names
Count(names, name) == Cardinality({i \in 1..Len(names) : names[i] = name})

\* the list holds its names in the order of sorted()
Ordered(names) ==
    \A i, j \in 1..Len(names) : i < j => ~str_lt(chars(names[j]), chars(names[i]))

\* the base name, as spelled, starts with a known tool-compatible name
StartsWithKnown(name) ==
    \E known \in TOOL_COMPATIBLE_MODELS :
        IsPrefix(chars(known), base_name(chars(name)))

\* the same, upper and lower case taken as equal
StartsWithKnownIgnoringCase(name) ==
    \E known \in TOOL_COMPATIBLE_MODELS :
        IsPrefix(lower(chars(known)), lower(base_name(chars(name))))

\* C34 as claimed: with tool_compatible_only list_models returns, in sorted
\* order, exactly the models of the backend whose base name starts with a
\* known tool-compatible name; without it, all the models of the backend.
C34_ListModels ==
    (last.op = "list_models" /\ last.response.ok) =>
        /\ ~last.raised
        /\ \A m \in ModelNames :
              Count(last.models, m) =
                  IF last.tool_compatible_only /\ ~StartsWithKnown(m)
                  THEN 0 ELSE Count(last.response.names, m)
        /\ last.tool_compatible_only => Ordered(last.models)

\* C34, amended: the same, with the base name and the known names compared
\* without regard to case.
C34_ListModelsIgnoringCase ==
    (last.op = "list_models" /\ last.response.ok) =>
        /\ ~last.raised
        /\ \A m \in ModelNames :
              Count(last.models, m) =
                  IF last.tool_compatible_only /\ ~StartsWithKnownIgnoringCase(m)
                  THEN 0 ELSE Count(last.response.names, m)
        /\ last.tool_compatible_only => Ordered(last.models)

\* C34 witness: of three listed models the two variants of llama3.2 are
\* returned, 13b before 7b, and the third model is left out.
C34_Witness ==
    /\ last.op = "list_models"
    /\ last.tool_compatible_only
    /\ last.response.names = <<"llama3.2:7b", "other-model:latest", "llama3.2:13b">>
    /\ last.models = <<"llama3.2:13b", "llama3.2:7b">>

\* C35: the step in which the chat loop returns because the backend call
\* failed leaves the history as it was before the call; the step in which it
\* returns on the exhausted ceiling leaves the history as it was, and that
\* history ends with a tool-role message and holds, behind the last user
\* message, no assistant message without tool calls.
C35_ReturnsAppendNothing ==
    [][(pc = "generate_response" /\ last'.op \in {"chat_error", "max_iterations"}) =>
          /\ messages' = messages
          /\ pc' = "approval_loop"
          /\ last'.op = "max_iterations" =>
                /\ messages # <<>>
                /\ messages'[Len(messages')].role = "tool"
                /\ LET asked == Max({0} \cup {i \in 1..Len(messages) :
                                                   messages[i].role = "user"})
                   IN  \A i \in (asked + 1)..Len(messages') :
                          messages'[i].role = "assistant" =>
                              messages'[i].tool_calls # <<>>
      ]_vars

\* C35 witness: the first invocation of a phase has returned on the exhausted
\* ceiling, its history ending with the results of the tenth tool turn.
C35_Witness ==
    /\ last.op = "max_iterations"
    /\ gens = 1
    /\ calls = max_iterations
    /\ pc = "approval_loop"
    /\ messages[Len(messages)].role = "tool"
    /\ messages[Len(messages) - 1].role = "assistant"

\* the operations in which a phase returns after its approval loop
PhaseReturns ==
    {"constitution_returns", "plan_returns", "execute_returns", "synthesize_returns"}

\* C36 as claimed: the initial generation of a phase, whatever it returned,
\* is followed by the approval loop on what it returned; and when it returned
\* "" and the user accepts, the phase writes its artifact, empty, and returns
\* success.
C36_EmptyGeneration ==
    /\ (phase # "none" /\ gens = 1 /\ pc \notin {"idle", "generate_response"}
            /\ last.op \in {"final", "chat_error", "max_iterations", "tool_calls"}) =>
           /\ pc = "approval_loop"
           /\ content = original
           /\ last.op # "final" => content = ""
    /\ (last.op \in PhaseReturns /\ outcomes[Len(outcomes)].approved
            /\ gens = 1 /\ original = "" /\ content = "") =>
           /\ SavedBy(started[Len(started)]) \subseteq written
           /\ last.text = ""
           /\ outcomes[Len(outcomes)].returned = "True"

\* C37: an edit step puts the text the editor saved in place of the content
\* under review (and leaves the content when the editor failed); it leaves
\* the history, the counters of the chat loop and the approval as they were
\* and starts no generation.  The feedback step that starts a regeneration
\* appends the feedback line and nothing else, and no history a backend call
\* is made with holds an edited text.
C37_EditFrame ==
    [][/\ (pc = "approval_loop" /\ last'.op = "edit") =>
             /\ content' \in (IF last'.input = "saved" THEN EditedTexts ELSE {content})
             /\ messages' = messages
             /\ pc' # "generate_response"
             /\ <<iteration, calls, gens, approved, use_tools>>'
                    = <<iteration, calls, gens, approved, use_tools>>
       /\ (pc = "approval_loop" /\ last'.op = "feedback") =>
             /\ Len(messages') = Len(messages) + 1
             /\ SubSeq(messages', 1, Len(messages)) = messages
             /\ messages'[Len(messages')].role = "user"
             /\ messages'[Len(messages')].content \in {Strip(l) : l \in FeedbackLines}
             /\ content' = content
       /\ pc' = "generate_response" =>
             \A i \in 1..Len(messages') : messages'[i].content \notin EditedTexts
      ]_vars

\* C37 witness: the user has edited the content and then given feedback; the
\* regeneration starts with the edited text under review and a history that
\* ends with the feedback and holds the edited text nowhere.
C37_Witness ==
    /\ pc = "generate_response"
    /\ last.op = "feedback"
    /\ gens = 2
    /\ content \in EditedTexts
    /\ original = "answer"
    /\ messages[Len(messages) - 1].content = "answer"
    /\ messages[Len(messages)].role = "user"
    /\ \A i \in 1..Len(messages) : messages[i].content \notin EditedTexts

\* the operations in which generate_response returns without an answer: the
\* backend call failed, the tool turn failed, or the ceiling was exhausted
FailedGeneration(op) ==
    \/ op.op \in {"chat_error", "max_iterations"}
    \/ op.op = "tool_calls" /\ op.raised

\* C38: the step in which a regeneration started by feedback fails or exhausts
\* the ceiling puts "" in place of the content under review, whatever that
\* was; and the accept or skip that follows it returns "".
C38_FailedRegeneration ==
    [][/\ (pc = "generate_response" /\ gens >= 2 /\ FailedGeneration(last')) =>
             /\ pc' = "approval_loop"
             /\ content' = ""
       /\ (pc = "approval_loop" /\ gens >= 2 /\ FailedGeneration(last)
               /\ last'.op \in {"accept", "skip"}) =>
             /\ pc' = "returned"
             /\ content' = ""
             /\ approved' = (last'.op = "accept")
      ]_vars

\* C38 witness: the first answer was under review, the regeneration asked for
\* by feedback failed at its first backend call, and the accept that followed
\* has returned "".
C38_Witness ==
    /\ pc = "returned"
    /\ last.op = "accept"
    /\ approved
    /\ gens = 2
    /\ original = "answer"
    /\ content = ""
    /\ messages[Len(messages)].role = "user"
    /\ messages[Len(messages) - 1].content = "answer"

====
